---- MODULE Spec2Model ----
(***************************************************************************)
(* A model of the multi-account session layer of pcloud_sdk:               *)
(*   Account            (pcloud_sdk/account.py)                            *)
(*   AccountManager     (pcloud_sdk/account_manager.py)                    *)
(*   User               (pcloud_sdk/user_operations.py)                    *)
(*   PCloudSDK          (pcloud_sdk/core.py)                               *)
(* Python dicts (API responses, Account.get_info records) are functions    *)
(* whose DOMAIN is the set of keys present.  Optional[int] values are      *)
(* sequences of length at most one: << >> is None, <<n>> is the int n.     *)
(* An exception is the "raised" field of an operation's result; "none"     *)
(* means the call returned.                                                *)
(***************************************************************************)
EXTENDS Integers, Sequences, FiniteSets, TLC

VARIABLES
    accounts,               \* AccountManager.accounts: insertion-ordered dict, a sequence of [key, acct]
    app_key,                \* AccountManager.app_key
    app_secret,             \* AccountManager.app_secret
    token_manager_enabled,  \* PCloudSDK.token_manager_enabled
    file,                   \* the credential file PCloudSDK.token_file names
    now,                    \* time.time()
    acct,                   \* a stand-alone Account object (Account-level operations)
    last                    \* the last call: its name, arguments, result and exception

vars == <<accounts, app_key, app_secret, token_manager_enabled, file, now, acct, last>>

----------------------------------------------------------------------------
(* Bounds of the model *)

\* number of calls in one run; every call takes one unit of time
MaxTime == 3
\* largest registry select_account_for_upload is tried on
MaxAccounts == 3
\* largest file size offered to select_account_for_upload
MaxFileSize == 3
\* the longest credential file, in items
MaxRecords == 3

----------------------------------------------------------------------------
(* Python values *)

None == << >>
Some(x) == <<x>>

\* dict.get(k, default)
DictGet(d, k, default) == IF k \in DOMAIN d THEN d[k] ELSE default

\* None where TLC needs a string: the value of a str field or of a str key of a
\* JSON object that is null
NullStr == "<null>"

\* None where TLC needs an integer: the value of an int key of a JSON object
\* that is null
NullInt == -1

\* a JSON number or null as an Optional[int]
JsonInt(v) == IF v = NullInt THEN None ELSE Some(v)

\* bool(s) of a str or None
Truthy(s) == s \notin {"", NullStr}

\* F applied to the value of v, v evaluated once
Bind(v, F(_)) == CHOOSE y \in {F(x) : x \in {v}} : TRUE

\* account ids and e-mail addresses
Ids == {"a", "b"}
\* tokens the remote hands out
Tokens == {"t1", "t2"}
Locations == {1, 2}

----------------------------------------------------------------------------
(* Account *)

\* Account.__init__ with every argument given
Account(account_id, access_token, location_id, auth_type, app_key_, app_secret_, redirect_uri, email, user_id, quota, used_quota, is_authenticated, curl_exec_timeout) ==
    [account_id |-> account_id,
     access_token |-> access_token,
     location_id |-> location_id,
     auth_type |-> auth_type,
     app_key |-> app_key_,
     app_secret |-> app_secret_,
     redirect_uri |-> redirect_uri,
     email |-> email,
     user_id |-> user_id,
     quota |-> quota,
     used_quota |-> used_quota,
     is_authenticated |-> is_authenticated,
     curl_exec_timeout |-> curl_exec_timeout]

\* Account(account_id=..., email=...): the other arguments at their defaults
NewAccount(account_id, email) ==
    Account(account_id, "", 1, "oauth2", "", "", "", email, None, None, None, FALSE, 3600)

set_credentials(self, access_token, location_id, auth_type) ==
    [self EXCEPT !.access_token = access_token,
                 !.location_id = location_id,
                 !.auth_type = auth_type,
                 !.is_authenticated = TRUE]

\* a variant that renames the Account to the address it is given
set_user_details_renaming(self, email, user_id, quota, used_quota) ==
    [self EXCEPT !.account_id = IF Truthy(email) THEN email ELSE @,
                 !.email = email,
                 !.user_id = user_id,
                 !.quota = quota,
                 !.used_quota = used_quota]

set_user_details(self, email, user_id, quota, used_quota) ==
    [self EXCEPT !.email = email,
                 !.user_id = user_id,
                 !.quota = quota,
                 !.used_quota = used_quota]

\* a variant that keeps auth_type as it is
clear_credentials_keeping_auth_type(self) ==
    [self EXCEPT !.access_token = "", !.email = "", !.user_id = None, !.quota = None,
                 !.used_quota = None, !.is_authenticated = FALSE]

clear_credentials(self) ==
    [self EXCEPT !.access_token = "",
                 !.auth_type = "oauth2",
                 !.email = "",
                 !.user_id = None,
                 !.quota = None,
                 !.used_quota = None,
                 !.is_authenticated = FALSE]

\* Account.get_info: the dict that is written to the credential file
get_info(self) ==
    [account_id |-> self.account_id,
     access_token |-> self.access_token,
     location_id |-> self.location_id,
     auth_type |-> self.auth_type,
     app_key |-> self.app_key,
     app_secret |-> self.app_secret,
     redirect_uri |-> self.redirect_uri,
     email |-> self.email,
     user_id |-> self.user_id,
     quota |-> self.quota,
     used_quota |-> self.used_quota,
     is_authenticated |-> self.is_authenticated,
     curl_exec_timeout |-> self.curl_exec_timeout]

----------------------------------------------------------------------------
(* What requests.get can give back: a transport failure, or an HTTP status  *)
(* with a body that is undecodable, JSON that is no object, or a JSON       *)
(* object (data).                                                           *)

HttpResponse(transport, status, body, data) ==
    [transport |-> transport, status |-> status, body |-> body, data |-> data]

TransportFailure == HttpResponse("fail", 0, "none", [result |-> 0])
Undecodable == HttpResponse("ok", 200, "undecodable", [result |-> 0])
NonDict == HttpResponse("ok", 200, "nondict", [result |-> 0])
Json(status, data) == HttpResponse("ok", status, "dict", data)

\* requests.get / raise_for_status / response.json, lines 162-169 and 220-227:
\* the exception the try block ends with, "none" when data is decoded
FetchError(resp) ==
    IF resp.transport = "fail" THEN "network"
    ELSE IF resp.status >= 400 THEN "network"
    ELSE IF resp.body = "undecodable" THEN "decode"
    ELSE "none"

\* the result of a call on an Account: the object after the call, the
\* exception type raised ("none": returned) and what the message says
CallResult(self, raised, error) == [self |-> self, raised |-> raised, error |-> error]

\* Account.perform_direct_login(email, password, location_id), given what the
\* remote answers
perform_direct_login(self, email, location_id, resp) ==
    IF FetchError(resp) # "none"
    THEN CallResult(self, "PCloudException", FetchError(resp))
    ELSE IF resp.body = "nondict"
    THEN CallResult(self, "AttributeError", "get")
    ELSE LET data == resp.data
         IN  IF "result" \in DOMAIN data /\ data["result"] = 0 /\ "auth" \in DOMAIN data
             THEN LET cred == set_credentials(self, data["auth"], location_id, "direct")
                  IN  \* the arguments of set_user_details are evaluated first
                      IF {"userid", "quota", "usedquota"} \subseteq DOMAIN data
                      THEN CallResult(
                               set_user_details(cred, DictGet(data, "email", email),
                                                Some(data["userid"]), Some(data["quota"]),
                                                Some(data["usedquota"])),
                               "none", "none")
                      ELSE CallResult(cred, "KeyError", "missing")
             ELSE IF "result" \in DOMAIN data /\ data["result"] = 2009 /\ "auth" \notin DOMAIN data
                  THEN CallResult(self, "PCloudException", "invalid_credentials")
                  ELSE CallResult(self, "PCloudException", "login_failed")

\* a variant that stores what the response holds before it looks for a usable token
perform_oauth_exchange_early(self, code, location_id, app_key_, app_secret_, resp) ==
    IF FetchError(resp) # "none"
    THEN CallResult(self, "PCloudException", FetchError(resp))
    ELSE IF resp.body = "nondict"
    THEN CallResult(self, "AttributeError", "get")
    ELSE LET data == resp.data
             cred == set_credentials(self, DictGet(data, "access_token", ""),
                                     DictGet(data, "locationid", location_id), "oauth2")
             uid == IF "userid" \in DOMAIN data
                    THEN [cred EXCEPT !.user_id = JsonInt(data["userid"])]
                    ELSE cred
         IN  IF "access_token" \in DOMAIN data /\ Truthy(data["access_token"])
             THEN CallResult(uid, "none", "none")
             ELSE CallResult(uid, "PCloudException", "exchange_failed")

\* Account.perform_oauth_exchange(code, location_id, app_key, app_secret), given
\* what the remote answers
perform_oauth_exchange(self, code, location_id, app_key_, app_secret_, resp) ==
    IF FetchError(resp) # "none"
    THEN CallResult(self, "PCloudException", FetchError(resp))
    ELSE IF resp.body = "nondict"
    THEN CallResult(self, "AttributeError", "get")
    ELSE LET data == resp.data
         IN  IF "access_token" \in DOMAIN data /\ Truthy(data["access_token"])
             THEN LET cred == set_credentials(self, data["access_token"],
                                              DictGet(data, "locationid", location_id),
                                              "oauth2")
                      uid == IF "userid" \in DOMAIN data
                             THEN [cred EXCEPT !.user_id = JsonInt(data["userid"])]
                             ELSE cred
                      em == IF "email" \in DOMAIN data /\ Truthy(data["email"])
                            THEN [uid EXCEPT !.email = data["email"]]
                            ELSE uid
                  IN  CallResult(em, "none", "none")
             ELSE CallResult(self, "PCloudException", "exchange_failed")

----------------------------------------------------------------------------
(* AccountManager: accounts is a dict in insertion order, modelled as the   *)
(* sequence of its items [key, acct].                                       *)

Keys(accs) == {accs[i].key : i \in 1..Len(accs)}

IndexOf(accs, account_id) == CHOOSE i \in 1..Len(accs) : accs[i].key = account_id

\* a variant that stores the account under its id whether or not the id is a key
add_account_overwriting(accs, account) ==
    IF account.account_id \in Keys(accs)
    THEN [accounts |-> [accs EXCEPT ![IndexOf(accs, account.account_id)].acct = account],
          raised |-> "none"]
    ELSE [accounts |-> Append(accs, [key |-> account.account_id, acct |-> account]),
          raised |-> "none"]

\* AccountManager.add_account: the dict after the call and the exception raised
add_account(accs, account) ==
    IF account.account_id \in Keys(accs)
    THEN [accounts |-> accs, raised |-> "ValueError"]
    ELSE [accounts |-> Append(accs, [key |-> account.account_id, acct |-> account]),
          raised |-> "none"]

\* a variant that deletes by position: the entry that was added first goes
remove_account_oldest(accs, account_id) ==
    IF account_id \notin Keys(accs)
    THEN [accounts |-> accs, raised |-> "KeyError"]
    ELSE [accounts |-> Tail(accs), raised |-> "none"]

\* AccountManager.remove_account
remove_account(accs, account_id) ==
    IF account_id \notin Keys(accs)
    THEN [accounts |-> accs, raised |-> "KeyError"]
    ELSE [accounts |-> SelectSeq(accs, LAMBDA e : e.key # account_id), raised |-> "none"]

\* AccountManager.get_account of a key that is present
get_account(accs, account_id) == accs[IndexOf(accs, account_id)].acct

\* AccountManager.get_account: the exception raised and the Account returned
get_account_call(accs, account_id) ==
    IF account_id \notin Keys(accs)
    THEN [raised |-> "KeyError", ret |-> None]
    ELSE [raised |-> "none", ret |-> Some(get_account(accs, account_id))]

\* AccountManager.list_accounts
list_accounts(accs) == [i \in 1..Len(accs) |-> accs[i].acct]

\* an Account object held by the registry is mutated in place
Mutate(accs, account_id, account) ==
    [accs EXCEPT ![IndexOf(accs, account_id)].acct = account]

----------------------------------------------------------------------------
(* The credential file: absent, or text that is not JSON ("corrupt"), or    *)
(* JSON that is no list ("nonlist"), or a JSON list of items.  An item is a *)
(* JSON value: an object (value is the dict) or something else.             *)

AbsentFile == [kind |-> "absent", data |-> << >>]
CorruptFile == [kind |-> "corrupt", data |-> << >>]
EmptyFile == [kind |-> "empty", data |-> << >>]
NonListFile == [kind |-> "nonlist", data |-> << >>]
ListFile(items) == [kind |-> "list", data |-> items]
JsonObject(d) == [json |-> "object", value |-> d]

\* what open(token_file, "w") and json.dump can do
IoOutcomes == {"ok", "open_fails", "write_fails"}

\* PCloudSDK._save_all_accounts_credentials: the file after the call
save_all_accounts_credentials(enabled, accs, f, io) ==
    IF ~enabled THEN f
    ELSE LET accounts_data == [i \in 1..Len(accs) |-> JsonObject(get_info(list_accounts(accs)[i]))]
         IN  IF io = "ok" THEN ListFile(accounts_data)
             ELSE IF io = "open_fails" THEN f
             ELSE CorruptFile

\* a variant that takes is_authenticated from the record's stored flag
load_item_trusting_flag(accs, item, ak, as) ==
    IF item.json # "object" THEN accs
    ELSE LET account_info == item.value
             account_id == IF Truthy(DictGet(account_info, "email", ""))
                           THEN account_info["email"]
                           ELSE DictGet(account_info, "account_id", "")
         IN  IF ~Truthy(account_id) THEN accs
             ELSE LET acc == Account(
                            account_id,
                            DictGet(account_info, "access_token", ""),
                            DictGet(account_info, "location_id", 1),
                            DictGet(account_info, "auth_type", "oauth2"),
                            DictGet(account_info, "app_key", ak),
                            DictGet(account_info, "app_secret", as),
                            DictGet(account_info, "redirect_uri", ""),
                            DictGet(account_info, "email", ""),
                            DictGet(account_info, "user_id", None),
                            DictGet(account_info, "quota", None),
                            DictGet(account_info, "used_quota", None),
                            DictGet(account_info, "is_authenticated", FALSE),
                            DictGet(account_info, "curl_exec_timeout", 3600))
                  IN  add_account(accs, acc).accounts

\* lines 96-139: one item of the list.  The staleness check of lines 107-116
\* reads saved_at and prints a warning; it decides nothing
load_item(accs, item, ak, as) ==
    IF item.json # "object" THEN accs
    ELSE LET account_info == item.value
             account_id == IF Truthy(DictGet(account_info, "email", ""))
                           THEN account_info["email"]
                           ELSE DictGet(account_info, "account_id", "")
         IN  IF ~Truthy(account_id) THEN accs
             ELSE LET acc == Account(
                            account_id,
                            DictGet(account_info, "access_token", ""),
                            DictGet(account_info, "location_id", 1),
                            DictGet(account_info, "auth_type", "oauth2"),
                            DictGet(account_info, "app_key", ak),
                            DictGet(account_info, "app_secret", as),
                            DictGet(account_info, "redirect_uri", ""),
                            DictGet(account_info, "email", ""),
                            DictGet(account_info, "user_id", None),
                            DictGet(account_info, "quota", None),
                            DictGet(account_info, "used_quota", None),
                            Truthy(DictGet(account_info, "access_token", "")),
                            DictGet(account_info, "curl_exec_timeout", 3600))
                  IN  \* ValueError is caught: the registry is left as it was
                      add_account(accs, acc).accounts

\* a variant that leaves the loop at the first item that registers nothing
RECURSIVE load_items_until_skip(_, _, _, _)
load_items_until_skip(accs, items, ak, as) ==
    IF items = << >> THEN accs
    ELSE IF load_item(accs, Head(items), ak, as) = accs THEN accs
    ELSE load_items_until_skip(load_item(accs, Head(items), ak, as), Tail(items), ak, as)

\* lines 95-139: the for loop over the items of the list
RECURSIVE load_items(_, _, _, _)
load_items(accs, items, ak, as) ==
    IF items = << >> THEN accs
    ELSE load_items(load_item(accs, Head(items), ak, as), Tail(items), ak, as)

\* a variant without the except clause for json.JSONDecodeError
load_saved_credentials_uncaught(enabled, accs, f, ak, as) ==
    IF ~enabled \/ f.kind = "absent"
    THEN [accounts |-> accs, ret |-> FALSE, raised |-> "none"]
    ELSE IF f.kind \in {"empty", "corrupt"}
    THEN [accounts |-> accs, ret |-> FALSE, raised |-> "JSONDecodeError"]
    ELSE IF f.kind # "list"
    THEN [accounts |-> accs, ret |-> FALSE, raised |-> "none"]
    ELSE [accounts |-> load_items(accs, f.data, ak, as), ret |-> TRUE, raised |-> "none"]

\* PCloudSDK._load_saved_credentials: the registry after the call, the bool
\* returned and the exception raised.  json.load raises JSONDecodeError on an
\* empty or corrupt file, which is caught (lines 151-153)
load_saved_credentials(enabled, accs, f, ak, as) ==
    IF ~enabled \/ f.kind = "absent"
    THEN [accounts |-> accs, ret |-> FALSE, raised |-> "none"]
    ELSE IF f.kind \in {"empty", "corrupt"}
    THEN [accounts |-> accs, ret |-> FALSE, raised |-> "none"]
    ELSE IF f.kind # "list"
    THEN [accounts |-> accs, ret |-> FALSE, raised |-> "none"]
    ELSE [accounts |-> load_items(accs, f.data, ak, as), ret |-> TRUE, raised |-> "none"]

\* what os.remove(token_file) can do
RemoveOutcomes == {"ok", "permission_error", "os_error"}

\* a variant that empties the registry only when the file is out of the way
clear_saved_credentials_unless_failed(enabled, accs, f, io) ==
    IF enabled /\ f.kind # "absent"
    THEN IF io = "ok"
         THEN [accounts |-> << >>, file |-> AbsentFile, raised |-> "none"]
         ELSE [accounts |-> accs, file |-> f, raised |-> "none"]
    ELSE [accounts |-> << >>, file |-> f, raised |-> "none"]

\* PCloudSDK.clear_saved_credentials: the registry and the file after the call
\* and the exception raised
clear_saved_credentials(enabled, accs, f, io) ==
    IF enabled /\ f.kind # "absent"
    THEN IF io = "ok"
         THEN [accounts |-> << >>, file |-> AbsentFile, raised |-> "none"]
         ELSE [accounts |-> << >>, file |-> f, raised |-> "none"]
    ELSE [accounts |-> << >>, file |-> f, raised |-> "none"]

----------------------------------------------------------------------------
(* PCloudSDK: the orchestrator's calls.  Each gives the registry and the    *)
(* file after the call, the exception raised, whether the file was written  *)
(* and the value returned (the Account, as a one-element sequence).         *)

SdkResult(accs, f, raised, error, saved, ret) ==
    [accounts |-> accs, file |-> f, raised |-> raised, error |-> error,
     saved |-> saved, ret |-> ret]

\* lines 355-356, 399-400, 430-431: if self.token_manager_enabled: save
Saved(enabled, io) == enabled /\ io = "ok"

\* a variant that registers the Account of a failed attempt
login_failed_registering(accs1, f, r) ==
    SdkResult(IF r.self.account_id \in Keys(accs1) THEN accs1
              ELSE Append(accs1, [key |-> r.self.account_id, acct |-> r.self]),
              f, r.raised, r.error, FALSE, None)

\* lines 403-405: perform_direct_login raised; the exception goes to the caller
\* with the registry and the file as the attempt left them
login_failed(accs1, f, r) == SdkResult(accs1, f, r.raised, r.error, FALSE, None)

\* a variant that logs in again whatever force_login says
login_always(accs, f, enabled, email, location_id, force_login, resp, io) ==
    LET account_id == email
        known == account_id \in Keys(accs)
        account == IF known THEN get_account(accs, account_id)
                   ELSE NewAccount(account_id, email)
        r == perform_direct_login(account, email, location_id, resp)
        accs1 == IF known THEN Mutate(accs, account_id, r.self) ELSE accs
    IN  IF r.raised # "none"
        THEN SdkResult(accs1, f, r.raised, r.error, FALSE, None)
        ELSE LET added == add_account(accs1, r.self)
             IN  IF added.raised # "none"
                 THEN SdkResult(accs1, f, added.raised, "exists", FALSE, None)
                 ELSE SdkResult(added.accounts,
                                save_all_accounts_credentials(enabled, added.accounts, f, io),
                                "none", "none", Saved(enabled, io), Some(r.self))

\* PCloudSDK.login(email, password, location_id, force_login)
login(accs, f, enabled, email, location_id, force_login, resp, io) ==
    LET account_id == email
        known == account_id \in Keys(accs)
    IN  IF known /\ ~force_login /\ get_account(accs, account_id).is_authenticated
        THEN SdkResult(accs, f, "none", "none", FALSE, Some(get_account(accs, account_id)))
        ELSE LET account == IF known THEN get_account(accs, account_id)
                            ELSE NewAccount(account_id, email)
                 r == perform_direct_login(account, email, location_id, resp)
                 accs1 == IF known THEN Mutate(accs, account_id, r.self) ELSE accs
             IN  IF r.raised # "none"
                 THEN login_failed(accs1, f, r)
                 ELSE LET added == add_account(accs1, r.self)
                      IN  IF added.raised # "none"
                          THEN SdkResult(accs1, f, added.raised, "exists", FALSE, None)
                          ELSE SdkResult(added.accounts,
                                         save_all_accounts_credentials(enabled, added.accounts, f, io),
                                         "none", "none", Saved(enabled, io), Some(r.self))

\* a variant that goes to the exchange without looking at the application's key
\* and secret
authenticate_unconfigured(accs, f, enabled, ak, as, code, location_id, account_id, resp, io) ==
    LET known == account_id \in Keys(accs)
        account == IF known THEN get_account(accs, account_id)
                   ELSE NewAccount(account_id, "")
        r == perform_oauth_exchange(account, code, location_id, ak, as, resp)
        accs1 == IF known THEN Mutate(accs, account_id, r.self) ELSE accs
    IN  IF r.raised # "none"
        THEN SdkResult(accs1, f, r.raised, r.error, FALSE, None)
        ELSE LET added == add_account(accs1, r.self)
             IN  IF added.raised # "none"
                 THEN SdkResult(accs1, f, added.raised, "exists", FALSE, None)
                 ELSE SdkResult(added.accounts,
                                save_all_accounts_credentials(enabled, added.accounts, f, io),
                                "none", "none", Saved(enabled, io), Some(r.self))

\* PCloudSDK.authenticate(code, location_id, account_id)
authenticate(accs, f, enabled, ak, as, code, location_id, account_id, resp, io) ==
    IF ~Truthy(ak) \/ ~Truthy(as)
    THEN SdkResult(accs, f, "PCloudException", "not_configured", FALSE, None)
    ELSE LET known == account_id \in Keys(accs)
             account == IF known THEN get_account(accs, account_id)
                        ELSE NewAccount(account_id, "")
             r == perform_oauth_exchange(account, code, location_id, ak, as, resp)
             accs1 == IF known THEN Mutate(accs, account_id, r.self) ELSE accs
         IN  IF r.raised # "none"
             THEN SdkResult(accs1, f, r.raised, r.error, FALSE, None)
             ELSE LET added == add_account(accs1, r.self)
                  IN  IF added.raised # "none"
                      THEN SdkResult(accs1, f, added.raised, "exists", FALSE, None)
                      ELSE SdkResult(added.accounts,
                                     save_all_accounts_credentials(enabled, added.accounts, f, io),
                                     "none", "none", Saved(enabled, io), Some(r.self))

\* a variant that takes the account out of the registry
logout_removing(accs, f, enabled, account_id, io) ==
    IF account_id \notin Keys(accs)
    THEN SdkResult(accs, f, "KeyError", "not_found", FALSE, None)
    ELSE LET accs1 == remove_account(accs, account_id).accounts
         IN  SdkResult(accs1, save_all_accounts_credentials(enabled, accs1, f, io),
                       "none", "none", Saved(enabled, io), None)

\* PCloudSDK.logout(account_id)
logout(accs, f, enabled, account_id, io) ==
    IF account_id \notin Keys(accs)
    THEN SdkResult(accs, f, "KeyError", "not_found", FALSE, None)
    ELSE LET accs1 == Mutate(accs, account_id, clear_credentials(get_account(accs, account_id)))
         IN  SdkResult(accs1, save_all_accounts_credentials(enabled, accs1, f, io),
                       "none", "none", Saved(enabled, io), None)

\* urllib.parse.quote_plus on the strings of the model: the characters : and /
\* are percent-encoded
quote_plus(v) ==
    IF v = "http://h/cb" THEN "http%3A%2F%2Fh%2Fcb"
    ELSE IF v = "app://cb" THEN "app%3A%2F%2Fcb"
    ELSE v

\* urllib.parse.urlencode(params): the key=value pairs of the query string, in
\* the order of the dict, each value quoted
urlencode(params) == [i \in 1..Len(params) |-> [key |-> params[i].key, value |-> quote_plus(params[i].value)]]

\* a variant that always sends a redirect_uri parameter
get_auth_url_always_redirecting(ak, redirect_uri) ==
    IF ~Truthy(ak)
    THEN [raised |-> "PCloudException", error |-> "not_configured",
          host |-> "", query |-> << >>]
    ELSE [raised |-> "none", error |-> "none",
          host |-> "https://my.pcloud.com/oauth2/authorize",
          query |-> urlencode(<<[key |-> "client_id", value |-> ak],
                                [key |-> "response_type", value |-> "code"],
                                [key |-> "redirect_uri", value |-> redirect_uri]>>)]

\* PCloudSDK.get_auth_url(redirect_uri): the exception raised, or the URL
\* returned, as its host and the pairs of its query string
get_auth_url(ak, redirect_uri) ==
    IF ~Truthy(ak)
    THEN [raised |-> "PCloudException", error |-> "not_configured",
          host |-> "", query |-> << >>]
    ELSE LET params == <<[key |-> "client_id", value |-> ak],
                         [key |-> "response_type", value |-> "code"]>>
             final_redirect_uri == redirect_uri
         IN  [raised |-> "none", error |-> "none",
              host |-> "https://my.pcloud.com/oauth2/authorize",
              query |-> urlencode(IF Truthy(final_redirect_uri)
                                  THEN Append(params, [key |-> "redirect_uri",
                                                       value |-> final_redirect_uri])
                                  ELSE params)]

\* PCloudSDK.__init__ of a new orchestrator on the same token_file: the registry it starts with
sdk_init(enabled, f, ak, as) ==
    IF enabled THEN load_saved_credentials(enabled, << >>, f, ak, as).accounts ELSE << >>

----------------------------------------------------------------------------
(* User (user_operations.py) and the quota query                            *)

\* Response.get: the decoded body of an HTTP answer
response_get(resp) ==
    IF resp.status # 200 THEN [raised |-> "PCloudException", value |-> [error |-> "http"]]
    ELSE IF resp.body = "dict"
    THEN IF "result" \in DOMAIN resp.data /\ resp.data["result"] = 0
         THEN [raised |-> "none",
               value |-> [k \in DOMAIN resp.data \ {"result"} |-> resp.data[k]]]
         ELSE [raised |-> "PCloudException", value |-> [error |-> "api"]]
    ELSE [raised |-> "none", value |-> [nondict |-> TRUE]]

\* Request.get("userinfo"): a network error or malformed JSON is wrapped in PCloudException
request_get(resp) ==
    IF resp.transport = "fail" THEN [raised |-> "PCloudException", value |-> [error |-> "network"]]
    ELSE IF resp.body = "undecodable"
    THEN [raised |-> "PCloudException", value |-> [error |-> "decode"]]
    ELSE response_get(resp)

\* User.__init__: no user info cached, no call made
User(account) == [account |-> account, user_info |-> None]

\* a variant that also stores the figures fetched in the Account's quota and used_quota
get_user_info_refreshing_account(self, resp) ==
    IF self.user_info = None
    THEN Bind(request_get(resp), LAMBDA r :
             IF r.raised # "none"
             THEN [self |-> self, raised |-> r.raised, value |-> r.value, calls |-> 1]
             ELSE [self |-> [self EXCEPT !.user_info = Some(r.value),
                                         !.account.quota = Some(DictGet(r.value, "quota", 0)),
                                         !.account.used_quota =
                                             Some(DictGet(r.value, "usedquota", 0))],
                   raised |-> "none", value |-> r.value, calls |-> 1])
    ELSE [self |-> self, raised |-> "none", value |-> self.user_info[1], calls |-> 0]

\* User.get_user_info: the handle after the call, the exception, the dict
\* returned and the number of userinfo calls issued
get_user_info(self, resp) ==
    IF self.user_info = None
    THEN Bind(request_get(resp), LAMBDA r :
             IF r.raised # "none"
             THEN [self |-> self, raised |-> r.raised, value |-> r.value, calls |-> 1]
             ELSE [self |-> [self EXCEPT !.user_info = Some(r.value)],
                   raised |-> "none", value |-> r.value, calls |-> 1])
    ELSE [self |-> self, raised |-> "none", value |-> self.user_info[1], calls |-> 0]

\* int(user_info[key]) of User.get_quota / User.get_used_quota
user_int(self, resp, key) ==
    Bind(get_user_info(self, resp), LAMBDA r :
        IF r.raised # "none"
        THEN [self |-> r.self, raised |-> r.raised, value |-> 0, calls |-> r.calls]
        ELSE IF "nondict" \in DOMAIN r.value
        THEN [self |-> r.self, raised |-> "TypeError", value |-> 0, calls |-> r.calls]
        ELSE IF key \notin DOMAIN r.value
        THEN [self |-> r.self, raised |-> "KeyError", value |-> 0, calls |-> r.calls]
        ELSE [self |-> r.self, raised |-> "none", value |-> r.value[key], calls |-> r.calls])

\* a variant that answers from the cache when there is one
refresh_user_info_keeping_cache(self, resp) == get_user_info(self, resp)

\* User.refresh_user_info: the cache is emptied, then get_user_info
refresh_user_info(self, resp) == get_user_info([self EXCEPT !.user_info = None], resp)

get_quota(self, resp) == user_int(self, resp, "quota")

get_used_quota(self, resp) == user_int(self, resp, "usedquota")

----------------------------------------------------------------------------
(* PCloudSDK.select_account_for_upload                                      *)

\* a variant that compares the total quota with the file size
has_room_ignoring_used(total_quota, used_quota, file_size) == total_quota >= file_size

\* lines 525-526
has_room(total_quota, used_quota, file_size) == total_quota - used_quota >= file_size

\* a variant that hands out a handle without looking at is_authenticated
get_user_operations_unchecked(accs, account_id) ==
    IF account_id \notin Keys(accs)
    THEN [raised |-> "PCloudException", user |-> User(NewAccount(account_id, ""))]
    ELSE [raised |-> "none", user |-> User(get_account(accs, account_id))]

\* PCloudSDK.get_user_operations(account_id)
get_user_operations(accs, account_id) ==
    IF account_id \notin Keys(accs)
    THEN [raised |-> "PCloudException", user |-> User(NewAccount(account_id, ""))]
    ELSE IF ~get_account(accs, account_id).is_authenticated
    THEN [raised |-> "PCloudException", user |-> User(get_account(accs, account_id))]
    ELSE [raised |-> "none", user |-> User(get_account(accs, account_id))]

\* lines 520-531: what the loop body does with the handle and the two figures.
\* "skip" and "candidate" continue the loop; an exception other than
\* PCloudException leaves it
scan_quota(user_ops, total, used, file_size) ==
    IF user_ops.raised = "PCloudException" \/ total.raised = "PCloudException"
    THEN [step |-> "skip", raised |-> "none", free_space |-> 0]
    ELSE IF total.raised # "none"
    THEN [step |-> "abort", raised |-> total.raised, free_space |-> 0]
    ELSE IF used.raised = "PCloudException"
    THEN [step |-> "skip", raised |-> "none", free_space |-> 0]
    ELSE IF used.raised # "none"
    THEN [step |-> "abort", raised |-> used.raised, free_space |-> 0]
    ELSE IF has_room(total.value, used.value, file_size)
    THEN [step |-> "candidate", raised |-> "none",
          free_space |-> total.value - used.value]
    ELSE [step |-> "skip", raised |-> "none", free_space |-> 0]

\* lines 513-531 for one account: the handle, get_quota, then get_used_quota
\* on the same handle
scan_account(accs, account, file_size, resp) ==
    IF ~account.is_authenticated THEN [step |-> "skip", raised |-> "none", free_space |-> 0]
    ELSE Bind(get_user_operations(accs, account.account_id), LAMBDA user_ops :
         Bind(get_quota(user_ops.user, resp), LAMBDA total :
         Bind(get_used_quota(total.self, resp), LAMBDA used :
              scan_quota(user_ops, total, used, file_size))))

\* a variant that takes the credentials from an Account whose quota query the
\* remote refused
account_after_scan_expiring(accs, account, resp) ==
    IF ~account.is_authenticated THEN account
    ELSE Bind(get_user_operations(accs, account.account_id), LAMBDA user_ops :
         IF user_ops.raised # "none" THEN account
         ELSE Bind(get_quota(user_ops.user, resp), LAMBDA total :
              IF total.raised = "PCloudException" THEN clear_credentials(account)
              ELSE IF total.raised # "none" THEN total.self.account
              ELSE get_used_quota(total.self, resp).self.account))

\* the Account object after lines 513-518: the handle made for it and the two
\* queries on the handle write to the handle only
account_after_scan(accs, account, resp) ==
    IF ~account.is_authenticated THEN account
    ELSE Bind(get_user_operations(accs, account.account_id), LAMBDA user_ops :
         IF user_ops.raised # "none" THEN account
         ELSE Bind(get_quota(user_ops.user, resp), LAMBDA total :
              IF total.raised # "none" THEN total.self.account
              ELSE get_used_quota(total.self, resp).self.account))

\* the index of the first account whose scan raises, Len + 1 when none does
scan_stop(steps) ==
    LET aborts == {i \in 1..Len(steps) : steps[i].step = "abort"}
    IN  IF aborts = {} THEN Len(steps) + 1
        ELSE CHOOSE i \in aborts : \A j \in aborts : i <= j

\* the for loop of lines 512-531, given each account's scan: the accounts are
\* taken in list order up to the first whose scan raises (all of them when none
\* does); each candidate is appended to suitable_accounts with its free space
scan_result(steps) ==
    LET aborts == {i \in 1..Len(steps) : steps[i].step = "abort"}
        stop == scan_stop(steps)
        indexes == [i \in 1..(stop - 1) |-> i]
        candidates == SelectSeq(indexes, LAMBDA i : steps[i].step = "candidate")
    IN  [raised |-> IF aborts = {} THEN "none" ELSE steps[stop].raised,
         suitable |-> [k \in 1..Len(candidates) |->
                         [index |-> candidates[k],
                          free_space |-> steps[candidates[k]].free_space]]]

scan_accounts(accs, file_size, resps) ==
    Bind([i \in 1..Len(accs) |->
             scan_account(accs, list_accounts(accs)[i], file_size, resps[i])],
         LAMBDA steps : scan_result(steps))

\* the registry after select_account_for_upload: the Account objects of the
\* accounts the loop reached, as the scan left them
accounts_after_select(accs, file_size, resps) ==
    Bind([i \in 1..Len(accs) |->
             scan_account(accs, list_accounts(accs)[i], file_size, resps[i])],
         LAMBDA steps :
             [i \in 1..Len(accs) |->
                 IF i <= scan_stop(steps)
                 THEN [key |-> accs[i].key,
                       acct |-> account_after_scan(accs, accs[i].acct, resps[i])]
                 ELSE accs[i]])

\* a variant that asks for each figure through a handle of its own
account_queries_per_figure(accs, account, resp) ==
    IF ~account.is_authenticated THEN 0
    ELSE Bind(get_user_operations(accs, account.account_id), LAMBDA user_ops :
         IF user_ops.raised # "none" THEN 0
         ELSE Bind(get_quota(user_ops.user, resp), LAMBDA total :
              IF total.raised # "none" THEN total.calls
              ELSE total.calls + get_used_quota(user_ops.user, resp).calls))

\* the userinfo calls lines 513-518 issue for one account: those of get_quota
\* and, when it returned, those of get_used_quota on the same handle
account_queries(accs, account, resp) ==
    IF ~account.is_authenticated THEN 0
    ELSE Bind(get_user_operations(accs, account.account_id), LAMBDA user_ops :
         IF user_ops.raised # "none" THEN 0
         ELSE Bind(get_quota(user_ops.user, resp), LAMBDA total :
              IF total.raised # "none" THEN total.calls
              ELSE total.calls + get_used_quota(total.self, resp).calls))

\* the userinfo calls issued for the first n accounts of the list, in the order
\* they are issued, each named by the index of its account
RECURSIVE queries_upto(_, _, _)
queries_upto(accs, resps, n) ==
    IF n = 0 THEN << >>
    ELSE queries_upto(accs, resps, n - 1)
         \o [k \in 1..account_queries(accs, list_accounts(accs)[n], resps[n]) |-> n]

\* the userinfo calls one select_account_for_upload issues: the loop goes
\* through the accounts up to the first whose scan raises
select_queries(accs, file_size, resps) ==
    Bind([i \in 1..Len(accs) |->
             scan_account(accs, list_accounts(accs)[i], file_size, resps[i])],
         LAMBDA steps :
             queries_upto(accs, resps,
                          IF scan_stop(steps) <= Len(accs) THEN scan_stop(steps) ELSE Len(accs)))

\* a variant that puts an item before the items of equal free space
insert_desc_unstable(sorted, x) ==
    LET before == SelectSeq(sorted, LAMBDA y : y.free_space > x.free_space)
        after == SelectSeq(sorted, LAMBDA y : y.free_space <= x.free_space)
    IN  before \o <<x>> \o after

\* list.sort(key=free space, reverse=True) is stable: an item goes after the
\* items of greater or equal free space that came before it
insert_desc(sorted, x) ==
    LET before == SelectSeq(sorted, LAMBDA y : y.free_space >= x.free_space)
        after == SelectSeq(sorted, LAMBDA y : y.free_space < x.free_space)
    IN  before \o <<x>> \o after

RECURSIVE sort_desc(_, _)
sort_desc(items, sorted) ==
    IF items = << >> THEN sorted
    ELSE sort_desc(Tail(items), insert_desc(sorted, Head(items)))

\* PCloudSDK.select_account_for_upload(file_size), given what the remote
\* answers to each account's userinfo call: the exception raised and the index
\* in list_accounts() of the Account returned (0: none)
select_account_for_upload(accs, file_size, resps) ==
    Bind(scan_accounts(accs, file_size, resps), LAMBDA scan :
        IF scan.raised # "none"
        THEN [raised |-> scan.raised, error |-> "quota_query", selected |-> 0]
        ELSE IF scan.suitable = << >>
        THEN [raised |-> "PCloudException", error |-> "no_suitable_account", selected |-> 0]
        ELSE [raised |-> "none", error |-> "none",
              selected |-> sort_desc(scan.suitable, << >>)[1].index])

\* File.__init__: the handle is scoped to one Account
File(account) == [account |-> account]

\* a variant that hands out the handle of the first account of the registry
get_file_operations_of_first(accs, account_id) ==
    IF account_id \notin Keys(accs)
    THEN [raised |-> "PCloudException", file_ops |-> File(NewAccount(account_id, ""))]
    ELSE IF ~get_account(accs, account_id).is_authenticated
    THEN [raised |-> "PCloudException", file_ops |-> File(get_account(accs, account_id))]
    ELSE [raised |-> "none", file_ops |-> File(list_accounts(accs)[1])]

\* PCloudSDK.get_file_operations(account_id)
get_file_operations(accs, account_id) ==
    IF account_id \notin Keys(accs)
    THEN [raised |-> "PCloudException", file_ops |-> File(NewAccount(account_id, ""))]
    ELSE IF ~get_account(accs, account_id).is_authenticated
    THEN [raised |-> "PCloudException", file_ops |-> File(get_account(accs, account_id))]
    ELSE [raised |-> "none", file_ops |-> File(get_account(accs, account_id))]

\* File.upload: it raises, or returns the dict the remote answered with
UploadRaises == [raised |-> "PCloudException", value |-> [error |-> "upload"]]
UploadReturns(d) == [raised |-> "none", value |-> d]

\* lines 588-590: the two keys set on the dict File.upload returned
augment_upload_result(upload_result, selected_account) ==
    [k \in DOMAIN upload_result \cup {"account_id_used", "account_email_used"} |->
        IF k = "account_id_used" THEN selected_account.account_id
        ELSE IF k = "account_email_used" THEN selected_account.email
        ELSE upload_result[k]]

\* what upload_to_suitable_account leaves behind: the exception raised, the
\* calls it made, in order, the index of the Account selected (0: none), the
\* Account of the handle File.upload was called on and the dict returned
UploadResult(raised, error, calls, selected, handle, ret) ==
    [raised |-> raised, error |-> error, calls |-> calls, selected |-> selected,
     handle |-> handle, ret |-> ret]

\* a variant that selects the account first and looks for the local file after
upload_to_suitable_account_selecting_first(accs, path_exists, file_size, resps, upload) ==
    Bind(select_account_for_upload(accs, file_size, resps), LAMBDA sel :
        IF sel.raised # "none"
        THEN UploadResult(sel.raised, sel.error,
                          <<"os.path.getsize", "select_account_for_upload">>, 0, None, None)
        ELSE IF ~path_exists
        THEN UploadResult("FileNotFoundError", "local_file",
                          <<"os.path.getsize", "select_account_for_upload", "os.path.exists">>,
                          sel.selected, None, None)
        ELSE UploadResult("none", "none",
                          <<"os.path.getsize", "select_account_for_upload", "os.path.exists",
                            "get_file_operations", "upload">>,
                          sel.selected, Some(list_accounts(accs)[sel.selected]),
                          Some(augment_upload_result(upload.value,
                                                     list_accounts(accs)[sel.selected]))))

\* lines 577-592: the handle of the selected Account, the upload through it and
\* the dict returned
upload_with(accs, selected, selected_account, upload) ==
    Bind(get_file_operations(accs, selected_account.account_id), LAMBDA ops :
        IF ops.raised # "none"
        THEN UploadResult(ops.raised, "file_operations",
                          <<"os.path.exists", "os.path.getsize", "select_account_for_upload",
                            "get_file_operations">>,
                          selected, None, None)
        ELSE IF upload.raised # "none"
        THEN UploadResult(upload.raised, "upload",
                          <<"os.path.exists", "os.path.getsize", "select_account_for_upload",
                            "get_file_operations", "upload">>,
                          selected, Some(ops.file_ops.account), None)
        ELSE UploadResult("none", "none",
                          <<"os.path.exists", "os.path.getsize", "select_account_for_upload",
                            "get_file_operations", "upload">>,
                          selected, Some(ops.file_ops.account),
                          Some(augment_upload_result(upload.value, selected_account))))

\* PCloudSDK.upload_to_suitable_account(file_path), given whether the path
\* exists, the size of the file, what the remote answers to each account's
\* userinfo call and what File.upload does
upload_to_suitable_account(accs, path_exists, file_size, resps, upload) ==
    IF ~path_exists
    THEN UploadResult("FileNotFoundError", "local_file", <<"os.path.exists">>, 0, None, None)
    ELSE Bind(select_account_for_upload(accs, file_size, resps), LAMBDA sel :
        IF sel.raised # "none"
        THEN UploadResult(sel.raised, sel.error,
                          <<"os.path.exists", "os.path.getsize", "select_account_for_upload">>,
                          0, None, None)
        ELSE upload_with(accs, sel.selected, list_accounts(accs)[sel.selected], upload))

----------------------------------------------------------------------------
(* Folder (folder_operations.py) and PCloudSDK.find_file_in_accounts.  The  *)
(* entries of a folder listing are dicts, as get_content's return type      *)
(* List[Dict[str, Any]] says; any key of an entry may be missing.           *)

\* Folder.__init__: the handle is scoped to one Account
Folder(account) == [account |-> account]

\* PCloudSDK.get_folder_operations(account_id)
get_folder_operations(accs, account_id) ==
    IF account_id \notin Keys(accs)
    THEN [raised |-> "PCloudException", folder_ops |-> Folder(NewAccount(account_id, ""))]
    ELSE IF ~get_account(accs, account_id).is_authenticated
    THEN [raised |-> "PCloudException", folder_ops |-> Folder(get_account(accs, account_id))]
    ELSE [raised |-> "none", folder_ops |-> Folder(get_account(accs, account_id))]

\* Folder.get_metadata: the params of the listfolder call
listfolder_params(folder_id, path) ==
    IF folder_id # None /\ folder_id[1] > 0 THEN [folderid |-> folder_id[1]]
    ELSE IF path # None THEN [path |-> path[1]]
    ELSE [path |-> "/"]

\* Folder.get_metadata(folder_id, path), given what the remote answers
get_metadata(folder_id, path, resp) ==
    Bind(request_get(resp), LAMBDA r :
        [raised |-> r.raised, value |-> r.value, params |-> listfolder_params(folder_id, path)])

\* Folder.get_content(folder_id, path): the exception raised, the list returned
\* and the params the remote was asked with.  On a body that is no dict,
\* folder_metadata.get raises AttributeError
get_content(folder_id, path, resp) ==
    Bind(get_metadata(folder_id, path, resp), LAMBDA folder_metadata :
        IF folder_metadata.raised # "none"
        THEN [raised |-> folder_metadata.raised, contents |-> << >>,
              params |-> folder_metadata.params]
        ELSE IF "nondict" \in DOMAIN folder_metadata.value
        THEN [raised |-> "AttributeError", contents |-> << >>,
              params |-> folder_metadata.params]
        ELSE IF "metadata" \in DOMAIN folder_metadata.value
        THEN [raised |-> "none",
              contents |-> DictGet(folder_metadata.value["metadata"], "contents", << >>),
              params |-> folder_metadata.params]
        ELSE [raised |-> "none",
              contents |-> DictGet(folder_metadata.value, "contents", << >>),
              params |-> folder_metadata.params])

\* str.lower() on the names of the model
Lower(name) == IF name = "F" THEN "f" ELSE name

\* a variant that compares the names without regard to case
is_match_ignoring_case(item, filename) ==
    /\ DictGet(item, "isfile", FALSE)
    /\ "name" \in DOMAIN item
    /\ Lower(item["name"]) = Lower(filename)

\* line 481: item.get('isfile', False) and item.get('name') == filename
is_match(item, filename) ==
    /\ DictGet(item, "isfile", FALSE)
    /\ "name" \in DOMAIN item
    /\ item["name"] = filename

\* lines 482-484: the copy of the entry with the account's id and email
found_info(item, account) ==
    [k \in DOMAIN item \cup {"account_id_found_in", "account_email_found_in"} |->
        IF k = "account_id_found_in" THEN account.account_id
        ELSE IF k = "account_email_found_in" THEN account.email
        ELSE item[k]]

\* a variant that puts a match in front of the matches found before it
append_found_in_front(found_files_results, info) == <<info>> \o found_files_results

\* line 485: found_files_results.append(found_info)
append_found(found_files_results, info) == Append(found_files_results, info)

\* the for loop of lines 480-486 over one listing
RECURSIVE scan_contents(_, _, _, _)
scan_contents(found_files_results, contents, account, filename) ==
    IF contents = << >> THEN found_files_results
    ELSE scan_contents(
             IF is_match(Head(contents), filename)
             THEN append_found(found_files_results, found_info(Head(contents), account))
             ELSE found_files_results,
             Tail(contents), account, filename)

\* what the search has done so far: the exception raised, the matches found and
\* the listfolder calls made, each with the index of its account and its params
FindResult(raised, found_files_results, queried) ==
    [raised |-> raised, ret |-> found_files_results, queried |-> queried]

\* a variant without the except clauses: the error of a listing leaves the loop
search_account_uncaught(so_far, accs, i, filename, folder_id, resp) ==
    IF so_far.raised # "none" THEN so_far
    ELSE IF ~list_accounts(accs)[i].is_authenticated THEN so_far
    ELSE Bind(get_folder_operations(accs, list_accounts(accs)[i].account_id), LAMBDA ops :
        IF ops.raised # "none" THEN FindResult(ops.raised, so_far.ret, so_far.queried)
        ELSE Bind(get_content(Some(IF folder_id # None THEN folder_id[1] ELSE 0), None, resp),
                  LAMBDA listing :
            IF listing.raised # "none"
            THEN FindResult(listing.raised, so_far.ret,
                            Append(so_far.queried, [index |-> i, params |-> listing.params]))
            ELSE FindResult("none",
                            scan_contents(so_far.ret, listing.contents,
                                          list_accounts(accs)[i], filename),
                            Append(so_far.queried, [index |-> i, params |-> listing.params]))))

\* lines 469-491 for the i-th account: skipped when not authenticated; an
\* exception of get_folder_operations or get_content is caught and printed
search_account(so_far, accs, i, filename, folder_id, resp) ==
    IF ~list_accounts(accs)[i].is_authenticated THEN so_far
    ELSE Bind(get_folder_operations(accs, list_accounts(accs)[i].account_id), LAMBDA ops :
        IF ops.raised # "none" THEN so_far
        ELSE Bind(get_content(Some(IF folder_id # None THEN folder_id[1] ELSE 0), None, resp),
                  LAMBDA listing :
            IF listing.raised # "none"
            THEN FindResult("none", so_far.ret,
                            Append(so_far.queried, [index |-> i, params |-> listing.params]))
            ELSE FindResult("none",
                            scan_contents(so_far.ret, listing.contents,
                                          list_accounts(accs)[i], filename),
                            Append(so_far.queried, [index |-> i, params |-> listing.params]))))

RECURSIVE search_accounts(_, _, _, _, _, _)
search_accounts(so_far, accs, i, filename, folder_id, resps) ==
    IF i > Len(accs) THEN so_far
    ELSE search_accounts(search_account(so_far, accs, i, filename, folder_id, resps[i]),
                         accs, i + 1, filename, folder_id, resps)

\* PCloudSDK.find_file_in_accounts(filename, folder_id), given what the remote
\* answers to each account's listfolder call
find_file_in_accounts(accs, filename, folder_id, resps) ==
    search_accounts(FindResult("none", << >>, << >>), accs, 1, filename, folder_id, resps)

----------------------------------------------------------------------------
(* What the remote may answer                                               *)

Profile(t) == [result |-> 0, auth |-> t, userid |-> 7, quota |-> 10, usedquota |-> 4]
ProfileWithEmail(t, e) ==
    [result |-> 0, auth |-> t, email |-> e, userid |-> 7, quota |-> 10, usedquota |-> 4]

\* answers to the userinfo call of perform_direct_login
DirectLoginResponses ==
    {TransportFailure, Undecodable, NonDict,
     Json(500, [error |-> "e"]),
     Json(200, [result |-> 2009, error |-> "e"]),
     Json(200, [result |-> 2000, error |-> "e"]),
     Json(200, [error |-> "e"]),
     Json(200, [result |-> 0])}
    \cup {Json(200, [result |-> 0, auth |-> t]) : t \in Tokens}
    \cup {Json(200, Profile(t)) : t \in Tokens \cup {""}}
    \cup {Json(200, ProfileWithEmail(t, e)) : t \in Tokens \cup {""}, e \in Ids}

\* answers to the oauth2_token call of perform_oauth_exchange
OAuthResponses ==
    {TransportFailure, Undecodable, NonDict,
     Json(400, [error |-> "e", error_description |-> "d"]),
     Json(200, [error |-> "e", error_description |-> "d"]),
     Json(200, [error |-> "e"]),
     Json(200, [access_token |-> "", userid |-> 7, email |-> "b", locationid |-> 2]),
     Json(200, [access_token |-> "t1", userid |-> NullInt, email |-> NullStr])}
    \cup {Json(200, [access_token |-> t]) : t \in Tokens}
    \cup {Json(200, [access_token |-> t, userid |-> 7, email |-> e]) :
             t \in Tokens, e \in Ids \cup {""}}
    \cup {Json(200, [access_token |-> t, locationid |-> l]) : t \in Tokens, l \in Locations}

\* the answers the orchestrator's runs are tried with: one of each kind above
SdkLocations == {2}

SdkLoginResponses ==
    {TransportFailure,
     Json(200, [result |-> 2009, error |-> "e"]),
     Json(200, [result |-> 0, auth |-> "t2"])}
    \cup {Json(200, Profile(t)) : t \in Tokens \cup {""}}
    \cup {Json(200, ProfileWithEmail("t1", e)) : e \in Ids}

SdkOAuthResponses ==
    {TransportFailure,
     Json(200, [error |-> "e", error_description |-> "d"])}
    \cup {Json(200, [access_token |-> t]) : t \in Tokens}
    \cup {Json(200, [access_token |-> "t1", userid |-> 7, email |-> e]) : e \in Ids}

\* (quota, usedquota) figures of a userinfo answer
QuotaPairs == {<<4, 4>>, <<4, 2>>, <<5, 2>>}

\* answers to the userinfo call of User.get_user_info
UserInfoResponses ==
    {TransportFailure,
     Json(200, [result |-> 2000, error |-> "e"]),
     Json(200, [result |-> 0, userid |-> 7, usedquota |-> 2])}
    \cup {Json(200, [result |-> 0, userid |-> 7, quota |-> p[1], usedquota |-> p[2]]) :
             p \in QuotaPairs}

----------------------------------------------------------------------------
(* The orchestrator: a PCloudSDK starts with an empty registry and no       *)
(* credential file; every call takes one unit of time.                      *)

Init ==
    /\ accounts = << >>
    /\ app_key \in {"", "k"}
    /\ app_secret \in {"", "s"}
    /\ token_manager_enabled \in BOOLEAN
    /\ file = AbsentFile
    /\ now = 0
    /\ acct = NewAccount("a", "")
    /\ last = [op |-> "init"]

\* what an orchestrator call leaves behind; last keeps the call's arguments
\* (force_login, and resp, the remote's answer) and its outcome
SdkStep(op, account_id, force_login, resp, r) ==
    /\ accounts' = r.accounts
    /\ file' = r.file
    /\ last' = [op |-> op, account_id |-> account_id, force_login |-> force_login,
                resp |-> resp, raised |-> r.raised, error |-> r.error,
                saved |-> r.saved, ret |-> r.ret]
    /\ now' = now + 1
    /\ UNCHANGED <<app_key, app_secret, token_manager_enabled, acct>>

Login(ios) ==
    /\ now < MaxTime
    /\ \E email \in Ids, location_id \in SdkLocations, force_login \in BOOLEAN,
          resp \in SdkLoginResponses, io \in ios :
          \E r \in {login(accounts, file, token_manager_enabled, email, location_id,
                         force_login, resp, io)} :
              SdkStep("login", email, force_login, resp, r)

Authenticate(ios) ==
    /\ now < MaxTime
    /\ \E account_id \in Ids, location_id \in SdkLocations, resp \in SdkOAuthResponses,
          io \in ios :
          \E r \in {authenticate(accounts, file, token_manager_enabled, app_key,
                                app_secret, "code", location_id, account_id, resp, io)} :
              SdkStep("authenticate", account_id, FALSE, resp, r)

Logout(ios) ==
    /\ now < MaxTime
    /\ \E account_id \in Ids, io \in ios :
          \E r \in {logout(accounts, file, token_manager_enabled, account_id, io)} :
              SdkStep("logout", account_id, FALSE, TransportFailure, r)

\* the process ends and a new PCloudSDK is constructed on the same token_file
Restart ==
    /\ now < MaxTime
    /\ accounts' = sdk_init(token_manager_enabled, file, app_key, app_secret)
    /\ last' = [op |-> "restart"]
    /\ now' = now + 1
    /\ UNCHANGED <<app_key, app_secret, token_manager_enabled, file, acct>>

Next ==
    \/ Login(IoOutcomes)
    \/ Authenticate(IoOutcomes)
    \/ Logout(IoOutcomes)
    \/ Restart

Spec == Init /\ [][Next]_vars

\* login, authenticate and logout only, token management on, no file I/O failure
SessionInit == Init /\ token_manager_enabled

SessionNext ==
    \/ Login({"ok"})
    \/ Authenticate({"ok"})
    \/ Logout({"ok"})

SessionSpec == SessionInit /\ [][SessionNext]_vars

----------------------------------------------------------------------------
(* One Account object in any state its constructor can give it, and the    *)
(* calls made on it                                                         *)

AccountStates ==
    {Account("a", t, l, at, "", "", "", e, p[1], p[2], p[3], auth, 3600) :
        t \in {"", "t1"}, l \in Locations, at \in {"oauth2", "direct"}, e \in {"", "a"},
        p \in {<<None, None, None>>, <<Some(7), Some(10), Some(4)>>}, auth \in BOOLEAN}

AccountInit ==
    /\ acct \in AccountStates
    /\ accounts = << >>
    /\ app_key = ""
    /\ app_secret = ""
    /\ token_manager_enabled = FALSE
    /\ file = AbsentFile
    /\ now = 0
    /\ last = [op |-> "init"]

\* what a call on the Account leaves behind; last keeps the call's arguments,
\* the Account as it was before the call, and the outcome
AccountStep(op, email, location_id, resp, r) ==
    /\ acct' = r.self
    /\ last' = [op |-> op, email |-> email, location_id |-> location_id, resp |-> resp,
                before |-> acct, raised |-> r.raised, error |-> r.error]
    /\ now' = now + 1
    /\ UNCHANGED <<accounts, app_key, app_secret, token_manager_enabled, file>>

PerformDirectLogin ==
    /\ now < MaxTime
    /\ \E email \in Ids, location_id \in Locations, resp \in DirectLoginResponses :
          \E r \in {perform_direct_login(acct, email, location_id, resp)} :
              AccountStep("perform_direct_login", email, location_id, resp, r)

PerformOAuthExchange ==
    /\ now < MaxTime
    /\ \E location_id \in Locations, resp \in OAuthResponses :
          \E r \in {perform_oauth_exchange(acct, "code", location_id, "k", "s", resp)} :
              AccountStep("perform_oauth_exchange", "", location_id, resp, r)

ClearCredentials ==
    /\ now < MaxTime
    /\ AccountStep("clear_credentials", "", acct.location_id, TransportFailure,
                   CallResult(clear_credentials(acct), "none", "none"))

AccountNext ==
    \/ PerformDirectLogin
    \/ PerformOAuthExchange
    \/ ClearCredentials

AccountSpec == AccountInit /\ [][AccountNext]_vars

----------------------------------------------------------------------------
(* An AccountManager on its own: accounts are added, removed and looked up  *)

ManagerIds == {"a", "b", "c"}

\* the Account objects handed to add_account
ManagerAccounts ==
    {Account(id, t, 1, "oauth2", "", "", "", "", None, None, None, t # "", 3600) :
        id \in ManagerIds, t \in {"", "t1"}}

ManagerInit ==
    /\ accounts = << >>
    /\ app_key = ""
    /\ app_secret = ""
    /\ token_manager_enabled = FALSE
    /\ file = AbsentFile
    /\ now = 0
    /\ acct = NewAccount("a", "")
    /\ last = [op |-> "init"]

\* what a call on the manager leaves behind: the dict, the account_id and the
\* Account the call was given, the exception raised and the value returned
ManagerStep(op, account_id, account, accs, raised, ret) ==
    /\ accounts' = accs
    /\ last' = [op |-> op, account_id |-> account_id, account |-> account,
                raised |-> raised, ret |-> ret]
    /\ now' = now + 1
    /\ UNCHANGED <<app_key, app_secret, token_manager_enabled, file, acct>>

AddAccount ==
    /\ now < MaxTime
    /\ \E account \in ManagerAccounts :
          \E r \in {add_account(accounts, account)} :
              ManagerStep("add_account", account.account_id, Some(account),
                          r.accounts, r.raised, None)

RemoveAccount ==
    /\ now < MaxTime
    /\ \E account_id \in ManagerIds :
          \E r \in {remove_account(accounts, account_id)} :
              ManagerStep("remove_account", account_id, None, r.accounts, r.raised, None)

GetAccount ==
    /\ now < MaxTime
    /\ \E account_id \in ManagerIds :
          \E r \in {get_account_call(accounts, account_id)} :
              ManagerStep("get_account", account_id, None, accounts, r.raised, r.ret)

ManagerNext ==
    \/ AddAccount
    \/ RemoveAccount
    \/ GetAccount

ManagerSpec == ManagerInit /\ [][ManagerNext]_vars

----------------------------------------------------------------------------
(* A new PCloudSDK on a token_file someone else wrote (an earlier run, a     *)
(* user's editor): what is loaded from it and what clearing does.  Time is   *)
(* counted in days here.                                                    *)

\* PCloudSDK.__init__: token_staleness_days
token_staleness_days == 30

\* time.time() when the file is loaded
StoreTime == 40

\* a record that carries saved_at
WithSavedAt(d, t) == [k \in DOMAIN d \cup {"saved_at"} |-> IF k = "saved_at" THEN t ELSE d[k]]

\* items a credential list can hold: records with an id and an email, with an
\* email only, with an id only, with neither, fresh and stale, with a stored
\* flag that agrees with the token or not, two of them with the same email and
\* two with the same id and no email; and an item that is no record
StoredItems ==
    {JsonObject(WithSavedAt(get_info(Account("a", "t1", 2, "direct", "", "", "", "a",
                                             Some(7), Some(10), Some(4), TRUE, 3600)), 39)),
     JsonObject(WithSavedAt(get_info(Account("b", "", 1, "oauth2", "", "", "", "a",
                                             None, None, None, TRUE, 3600)), 5)),
     JsonObject([email |-> "b", access_token |-> "t2", is_authenticated |-> FALSE,
                 saved_at |-> 5]),
     JsonObject([access_token |-> "t1", is_authenticated |-> TRUE]),
     JsonObject(get_info(Account("c", "t1", 1, "oauth2", "", "", "", "",
                                 None, None, None, TRUE, 3600))),
     JsonObject([account_id |-> "c", access_token |-> "t2"]),
     [json |-> "string", value |-> [text |-> "x"]]}

\* lists of up to MaxRecords items, no item twice
StoredLists ==
    UNION {{items \in [1..n -> StoredItems] :
               \A i, j \in 1..n : i # j => items[i] # items[j]} : n \in 0..MaxRecords}

StoredFiles ==
    {AbsentFile, EmptyFile, CorruptFile, NonListFile}
    \cup {ListFile(items) : items \in StoredLists}

StoreInit ==
    /\ accounts = << >>
    /\ app_key = ""
    /\ app_secret = ""
    /\ token_manager_enabled \in BOOLEAN
    /\ file \in StoredFiles
    /\ now = StoreTime
    /\ acct = NewAccount("a", "")
    /\ last = [op |-> "init"]

\* the new orchestrator's _load_saved_credentials()
LoadSavedCredentials ==
    /\ last.op = "init"
    /\ \E r \in {load_saved_credentials(token_manager_enabled, accounts, file,
                                        app_key, app_secret)} :
          /\ accounts' = r.accounts
          /\ last' = [op |-> "load_saved_credentials", raised |-> r.raised, ret |-> r.ret]
    /\ UNCHANGED <<app_key, app_secret, token_manager_enabled, file, now, acct>>

\* clear_saved_credentials(), before or after the load; last keeps what
\* os.remove did and how many accounts the registry held
ClearSavedCredentials ==
    /\ last.op \in {"init", "load_saved_credentials"}
    /\ \E io \in RemoveOutcomes :
          \E r \in {clear_saved_credentials(token_manager_enabled, accounts, file, io)} :
              /\ accounts' = r.accounts
              /\ file' = r.file
              /\ last' = [op |-> "clear_saved_credentials", io |-> io,
                          held |-> Len(accounts), raised |-> r.raised]
    /\ UNCHANGED <<app_key, app_secret, token_manager_enabled, now, acct>>

StoreNext ==
    \/ LoadSavedCredentials
    \/ ClearSavedCredentials

StoreSpec == StoreInit /\ [][StoreNext]_vars

----------------------------------------------------------------------------
(* A registry of up to MaxAccounts accounts, each authenticated or not, and *)
(* select_account_for_upload called on it                                   *)

IdPool == <<"a", "b", "c", "d", "e">>

\* the e-mail address of each: the id for an account made by login, none or
\* the address the remote supplied for an account made by authenticate
EmailPool == <<"a", "", "x", "d", "y">>

RegistryOf(flags) ==
    [i \in 1..Len(flags) |->
        [key |-> IdPool[i],
         acct |-> Account(IdPool[i], IF flags[i] THEN "t1" ELSE "", 1, "direct", "", "", "",
                          EmailPool[i], Some(7), Some(10), Some(4), flags[i], 3600)]]

Registries ==
    UNION {{RegistryOf(flags) : flags \in [1..n -> BOOLEAN]} : n \in 0..MaxAccounts}

SelectInit ==
    /\ accounts \in Registries
    /\ app_key = ""
    /\ app_secret = ""
    /\ token_manager_enabled = FALSE
    /\ file = AbsentFile
    /\ now = 0
    /\ acct = NewAccount("a", "")
    /\ last = [op |-> "init"]

\* one call on each registry: the call changes nothing a second call would read
SelectAccountForUpload ==
    /\ last.op = "init"
    /\ \E file_size \in 0..MaxFileSize, resps \in [1..Len(accounts) -> UserInfoResponses] :
          \E r \in {select_account_for_upload(accounts, file_size, resps)} :
              /\ last' = [op |-> "select_account_for_upload", file_size |-> file_size,
                          resps |-> resps, raised |-> r.raised, error |-> r.error,
                          selected |-> r.selected,
                          queried |-> select_queries(accounts, file_size, resps)]
              /\ accounts' = accounts_after_select(accounts, file_size, resps)
              /\ UNCHANGED <<app_key, app_secret, token_manager_enabled, file, now, acct>>

\* what File.upload can do
UploadOutcomes ==
    {UploadRaises,
     UploadReturns([fileid |-> 1, name |-> "f", size |-> 1]),
     UploadReturns([fileid |-> 2, name |-> "g", size |-> 2])}

\* one upload on each registry; last keeps the arguments and the outcome
UploadToSuitableAccount ==
    /\ last.op = "init"
    /\ \E path_exists \in BOOLEAN, file_size \in 0..MaxFileSize, upload \in UploadOutcomes,
          resps \in [1..Len(accounts) -> UserInfoResponses] :
          \E r \in {upload_to_suitable_account(accounts, path_exists, file_size, resps,
                                               upload)} :
              /\ last' = [op |-> "upload_to_suitable_account", path_exists |-> path_exists,
                          file_size |-> file_size, resps |-> resps, upload |-> upload,
                          raised |-> r.raised, error |-> r.error, calls |-> r.calls,
                          selected |-> r.selected, handle |-> r.handle, ret |-> r.ret]
              /\ accounts' = IF path_exists
                             THEN accounts_after_select(accounts, file_size, resps)
                             ELSE accounts
              /\ UNCHANGED <<app_key, app_secret, token_manager_enabled, file, now, acct>>

SelectNext ==
    \/ SelectAccountForUpload
    \/ UploadToSuitableAccount

SelectSpec == SelectInit /\ [][SelectNext]_vars

----------------------------------------------------------------------------
(* A registry of up to MaxAccounts accounts, each authenticated or not, and *)
(* find_file_in_accounts called on it                                       *)

\* entries of a folder listing: two files named f, a file named F, a folder
\* named f with and without the isfile key, and a file without a name
FileEntry(name, fileid) == [name |-> name, isfile |-> TRUE, fileid |-> fileid]
FolderEntry == [name |-> "f", isfile |-> FALSE, isfolder |-> TRUE, folderid |-> 4]
UnflaggedEntry == [name |-> "f", isfolder |-> TRUE]
NamelessEntry == [isfile |-> TRUE, fileid |-> 5]

\* a listfolder answer with the entries under metadata.contents
Listing(contents) == Json(200, [result |-> 0, metadata |-> [name |-> "/", contents |-> contents]])

\* answers to the listfolder call of Folder.get_metadata
ListFolderResponses ==
    {TransportFailure,
     NonDict,
     Json(200, [result |-> 2005, error |-> "e"]),
     Json(200, [result |-> 0, metadata |-> [name |-> "/"]]),
     Listing(<<FileEntry("f", 1)>>),
     Listing(<<FileEntry("f", 2), FolderEntry, FileEntry("f", 1)>>),
     Listing(<<FileEntry("F", 3), NamelessEntry, UnflaggedEntry>>),
     Json(200, [result |-> 0, contents |-> <<FileEntry("F", 3), FileEntry("f", 1)>>])}

FileNames == {"f", "F"}

\* folder_id: None, the root folder or another folder
FolderIds == {None, Some(0), Some(5)}

\* one search on each registry; last keeps the arguments and the outcome
FindFileInAccounts ==
    /\ last.op = "init"
    /\ \E filename \in FileNames, folder_id \in FolderIds,
          resps \in [1..Len(accounts) -> ListFolderResponses] :
          \E r \in {find_file_in_accounts(accounts, filename, folder_id, resps)} :
              /\ last' = [op |-> "find_file_in_accounts", filename |-> filename,
                          folder_id |-> folder_id, resps |-> resps, raised |-> r.raised,
                          ret |-> r.ret, queried |-> r.queried]
              /\ UNCHANGED <<accounts, app_key, app_secret, token_manager_enabled, file, now, acct>>

FindNext == FindFileInAccounts

FindSpec == SelectInit /\ [][FindNext]_vars

----------------------------------------------------------------------------
(* A PCloudSDK with or without an app_key and a registry of accounts, and   *)
(* get_auth_url called on it                                                *)

RedirectUris == {"", "http://h/cb", "app://cb"}

AuthUrlInit ==
    /\ accounts \in Registries
    /\ app_key \in {"", "k"}
    /\ app_secret \in {"", "s"}
    /\ token_manager_enabled = FALSE
    /\ file = AbsentFile
    /\ now = 0
    /\ acct = NewAccount("a", "")
    /\ last = [op |-> "init"]

GetAuthUrl ==
    /\ now < MaxTime
    /\ \E redirect_uri \in RedirectUris :
          \E r \in {get_auth_url(app_key, redirect_uri)} :
              /\ last' = [op |-> "get_auth_url", redirect_uri |-> redirect_uri,
                          raised |-> r.raised, error |-> r.error, host |-> r.host,
                          query |-> r.query]
              /\ now' = now + 1
              /\ UNCHANGED <<accounts, app_key, app_secret, token_manager_enabled, file, acct>>

AuthUrlNext == GetAuthUrl

AuthUrlSpec == AuthUrlInit /\ [][AuthUrlNext]_vars

----------------------------------------------------------------------------
(* Claims about Account (checked under AccountSpec)                         *)

\* C1: when perform_direct_login fails, is_authenticated, access_token,
\* location_id, auth_type, email, user_id, quota and used_quota are what they
\* were before the call.
DirectLoginFailureLeavesAccountUnchanged ==
    [][(last'.op = "perform_direct_login" /\ last'.raised # "none")
        => /\ acct'.is_authenticated = acct.is_authenticated
           /\ acct'.access_token = acct.access_token
           /\ acct'.location_id = acct.location_id
           /\ acct'.auth_type = acct.auth_type
           /\ acct'.email = acct.email
           /\ acct'.user_id = acct.user_id
           /\ acct'.quota = acct.quota
           /\ acct'.used_quota = acct.used_quota]_vars

\* C2: when perform_oauth_exchange fails, is_authenticated, access_token,
\* location_id, auth_type, email and user_id are what they were before the call.
OAuthFailureLeavesAccountUnchanged ==
    [][(last'.op = "perform_oauth_exchange" /\ last'.raised # "none")
        => /\ acct'.is_authenticated = acct.is_authenticated
           /\ acct'.access_token = acct.access_token
           /\ acct'.location_id = acct.location_id
           /\ acct'.auth_type = acct.auth_type
           /\ acct'.email = acct.email
           /\ acct'.user_id = acct.user_id]_vars

\* an exchange that found no usable token has failed on an authenticated
\* account with a profile
OAuthFailedOnAuthenticatedAccount ==
    /\ last.op = "perform_oauth_exchange"
    /\ last.raised = "PCloudException"
    /\ last.error = "exchange_failed"
    /\ "access_token" \in DOMAIN last.resp.data
    /\ acct.is_authenticated
    /\ acct.access_token = "t1"
    /\ acct.auth_type = "direct"
    /\ acct.user_id = Some(7)

----------------------------------------------------------------------------
(* Claims about the orchestrator (checked under Spec and SessionSpec)       *)

\* C3: every Account of the registry that is authenticated holds a non-empty
\* access token.
AuthenticatedImpliesToken ==
    \A i \in 1..Len(accounts) :
        accounts[i].acct.is_authenticated => accounts[i].acct.access_token # ""

\* the fields a save and a load are to reproduce
RoundTripFields(a) ==
    <<a.account_id, a.access_token, a.location_id, a.auth_type, a.is_authenticated,
      a.user_id, a.quota, a.used_quota>>

\* C8: when the file holds what a save of the registry writes, the registry a
\* new orchestrator loads from it has the same account ids, and under each id
\* an Account with the same account_id, access_token, location_id, auth_type,
\* is_authenticated, user_id, quota and used_quota.
SaveThenLoadReproducesRegistry ==
    [][(/\ last'.op = "restart"
        /\ token_manager_enabled
        /\ file = save_all_accounts_credentials(TRUE, accounts, file, "ok"))
        => /\ Keys(accounts') = Keys(accounts)
           /\ \A k \in Keys(accounts) :
                 RoundTripFields(get_account(accounts', k))
                     = RoundTripFields(get_account(accounts, k))]_vars

\* C9: after a call that saved, every record of the file carries saved_at, the
\* time of that save (the call was made at time now - 1).
SavedRecordsCarrySavedAt ==
    ("saved" \in DOMAIN last /\ last.saved)
        => \A i \in 1..Len(file.data) :
               /\ file.data[i].json = "object"
               /\ "saved_at" \in DOMAIN file.data[i].value
               /\ file.data[i].value["saved_at"] = now - 1

\* the records of the credential file; none when there is no file
FileRecords == IF file.kind = "list" THEN file.data ELSE << >>

\* C10: after every login, authenticate or logout, returned or raised, the file
\* holds one record per registered account, with that account's id, access
\* token and is_authenticated.
FileAgreesWithRegistry ==
    last.op \in {"login", "authenticate", "logout"}
        => /\ Len(FileRecords) = Len(accounts)
           /\ \A i \in 1..Len(accounts) :
                 /\ FileRecords[i].value["account_id"] = accounts[i].acct.account_id
                 /\ FileRecords[i].value["access_token"] = accounts[i].acct.access_token
                 /\ FileRecords[i].value["is_authenticated"]
                        = accounts[i].acct.is_authenticated

----------------------------------------------------------------------------
(* Claims about select_account_for_upload (checked under SelectSpec)        *)

\* the i-th account's quota query was answered with both figures
QuotaAnswered(i) ==
    /\ last.resps[i].transport = "ok"
    /\ last.resps[i].status = 200
    /\ last.resps[i].body = "dict"
    /\ {"result", "quota", "usedquota"} \subseteq DOMAIN last.resps[i].data
    /\ last.resps[i].data["result"] = 0

\* total quota minus used quota, as the i-th account's quota query returned them
FreeSpace(i) == last.resps[i].data["quota"] - last.resps[i].data["usedquota"]

\* the i-th account survives filtering: authenticated, quota known, room for the file
Survives(i) ==
    /\ accounts[i].acct.is_authenticated
    /\ QuotaAnswered(i)
    /\ FreeSpace(i) >= last.file_size

Returned ==
    /\ last.op = "select_account_for_upload"
    /\ last.raised = "none"

\* C4: the Account select_account_for_upload returns is authenticated and its
\* free space, as its quota query returned it, is at least file_size.
SelectedIsAuthenticatedWithRoom ==
    Returned
        => /\ last.selected \in 1..Len(accounts)
           /\ accounts[last.selected].acct.is_authenticated
           /\ QuotaAnswered(last.selected)
           /\ FreeSpace(last.selected) >= last.file_size

\* an account was returned for a file of positive size while another account
\* was unauthenticated and a third answered with too little free space
SelectedPastUnsuitableAccounts ==
    /\ Returned
    /\ last.file_size > 0
    /\ \E j \in 1..Len(accounts) : ~accounts[j].acct.is_authenticated
    /\ \E j \in 1..Len(accounts) :
          /\ accounts[j].acct.is_authenticated
          /\ QuotaAnswered(j)
          /\ FreeSpace(j) < last.file_size

\* C5: the Account returned has the largest free space among the accounts that
\* survive filtering, and comes first in registry order among those with that
\* free space.
SelectedHasMostFreeSpaceFirstOnTie ==
    Returned
        => /\ Survives(last.selected)
           /\ \A j \in 1..Len(accounts) :
                 Survives(j)
                     => /\ FreeSpace(j) <= FreeSpace(last.selected)
                        /\ FreeSpace(j) = FreeSpace(last.selected) => last.selected <= j

\* the account returned came after a survivor with less free space and before
\* a survivor with the same free space
SelectedBetweenSmallerAndEqual ==
    /\ Returned
    /\ \E i \in 1..Len(accounts) :
          i < last.selected /\ Survives(i) /\ FreeSpace(i) < FreeSpace(last.selected)
    /\ \E j \in 1..Len(accounts) :
          j > last.selected /\ Survives(j) /\ FreeSpace(j) = FreeSpace(last.selected)

\* C6: when an authenticated account has enough free space, selection does not
\* fail, whatever the other accounts' quota queries raise.
QuotaErrorsAreSkipped ==
    (/\ last.op = "select_account_for_upload"
     /\ \E i \in 1..Len(accounts) : Survives(i))
        => last.raised = "none"

\* C7: selection fails with the no-suitable-account error exactly when no
\* account survives filtering, and returns an Account in every other case.
NoSuitableExactlyWhenNoneSurvive ==
    last.op = "select_account_for_upload"
        => /\ (last.raised = "PCloudException" /\ last.error = "no_suitable_account")
                <=> ~(\E i \in 1..Len(accounts) : Survives(i))
           /\ (\E i \in 1..Len(accounts) : Survives(i))
                => (last.raised = "none" /\ last.selected \in 1..Len(accounts))

----------------------------------------------------------------------------
(* Claims about calls on an account that is already registered (checked     *)
(* under SessionSpec: token management on, no file I/O failure)             *)

\* the remote accepts the direct login: result 0, a token and the profile
RemoteAcceptsLogin(resp) ==
    /\ resp.transport = "ok" /\ resp.status = 200 /\ resp.body = "dict"
    /\ {"result", "auth", "userid", "quota", "usedquota"} \subseteq DOMAIN resp.data
    /\ resp.data["result"] = 0
    /\ resp.data["auth"] # ""

\* the remote answers the code exchange with a usable token
RemoteReturnsUsableToken(resp) ==
    /\ resp.transport = "ok" /\ resp.status = 200 /\ resp.body = "dict"
    /\ "access_token" \in DOMAIN resp.data
    /\ resp.data["access_token"] # ""

\* the call returned the Account registered under its id, authenticated, the
\* registry holds one entry for that id and the file holds what a save writes
ReturnedRegisteredAndSaved ==
    /\ last'.raised = "none"
    /\ Cardinality({i \in 1..Len(accounts') : accounts'[i].key = last'.account_id}) = 1
    /\ last'.ret = Some(get_account(accounts', last'.account_id))
    /\ get_account(accounts', last'.account_id).is_authenticated
    /\ last'.saved
    /\ file' = save_all_accounts_credentials(TRUE, accounts', file, "ok")

\* C11: login for an email already in the registry, not authenticated or with
\* force_login, when the remote accepts the login, returns the authenticated
\* Account, keeps exactly one registry entry for the id and saves the credentials.
ReLoginOfRegisteredAccountSucceeds ==
    [][(/\ last'.op = "login"
        /\ last'.account_id \in Keys(accounts)
        /\ \/ last'.force_login
           \/ ~get_account(accounts, last'.account_id).is_authenticated
        /\ RemoteAcceptsLogin(last'.resp))
        => ReturnedRegisteredAndSaved]_vars

\* C12: authenticate for an account_id already in the registry, when the remote
\* returns a usable token, returns the authenticated Account, with exactly one
\* registry entry for the id and the credentials saved.
AuthenticateOfRegisteredAccountSucceeds ==
    [][(/\ last'.op = "authenticate"
        /\ last'.account_id \in Keys(accounts)
        /\ Truthy(app_key) /\ Truthy(app_secret)
        /\ RemoteReturnsUsableToken(last'.resp))
        => ReturnedRegisteredAndSaved]_vars

----------------------------------------------------------------------------
(* Claims about AccountManager (checked under ManagerSpec)                  *)

\* no two entries of the registry have the same key or hold the same account_id
NoSharedAccountId(accs) ==
    \A i, j \in 1..Len(accs) :
        i # j => /\ accs[i].key # accs[j].key
                 /\ accs[i].acct.account_id # accs[j].acct.account_id

\* every entry of accs is an entry of accs2, under the same key with the same Account
EntriesKept(accs, accs2) ==
    \A k \in Keys(accs) : k \in Keys(accs2) /\ get_account(accs2, k) = get_account(accs, k)

\* C13: add_account raises the duplicate-account error when the account_id is
\* already a key and leaves the registry as it was; otherwise it inserts the
\* account; and no two registered Accounts ever share an account_id.
AddFailsOnDuplicateElseInserts ==
    [][/\ last'.op = "add_account"
          => IF last'.account_id \in Keys(accounts)
             THEN /\ last'.raised = "ValueError"
                  /\ accounts' = accounts
             ELSE /\ last'.raised = "none"
                  /\ Keys(accounts') = Keys(accounts) \cup {last'.account_id}
                  /\ Some(get_account(accounts', last'.account_id)) = last'.account
                  /\ EntriesKept(accounts, accounts')
       /\ NoSharedAccountId(accounts')]_vars

\* a duplicate add was refused, with an Account that differs from the one
\* stored under the id, while the registry holds two accounts
DuplicateAddRefused ==
    /\ last.op = "add_account"
    /\ last.raised = "ValueError"
    /\ Len(accounts) = 2
    /\ Some(get_account(accounts, last.account_id)) # last.account

\* C14: remove_account and get_account raise the not-found error when the id is
\* absent and leave the registry as it was; remove_account of a present id
\* deletes that entry and no other; get_account of a present id returns the
\* stored Account and leaves the registry as it was.
RemoveAndGetFailOnAbsentElseAct ==
    [][/\ last'.op = "remove_account"
          => IF last'.account_id \notin Keys(accounts)
             THEN /\ last'.raised = "KeyError"
                  /\ accounts' = accounts
             ELSE /\ last'.raised = "none"
                  /\ Keys(accounts') = Keys(accounts) \ {last'.account_id}
                  /\ Len(accounts') = Len(accounts) - 1
                  /\ EntriesKept(accounts', accounts)
       /\ last'.op = "get_account"
          => /\ accounts' = accounts
             /\ IF last'.account_id \notin Keys(accounts)
                THEN last'.raised = "KeyError"
                ELSE /\ last'.raised = "none"
                     /\ last'.ret = Some(get_account(accounts, last'.account_id))]_vars

\* one of two registered accounts was removed and the other is still there
RemovedOneOfTwo ==
    /\ last.op = "remove_account"
    /\ last.raised = "none"
    /\ Len(accounts) = 1
    /\ last.account_id \notin Keys(accounts)
    /\ now = 3

----------------------------------------------------------------------------
(* Claims about clear_credentials (checked under AccountSpec)               *)

\* what clear_credentials is to leave apart from email
ClearedApartFromEmail(a) ==
    /\ a.is_authenticated = FALSE
    /\ a.access_token = ""
    /\ a.auth_type = "oauth2"
    /\ a.user_id = None
    /\ a.quota = None
    /\ a.used_quota = None

\* C15: after clear_credentials, whatever the Account was before, it is not
\* authenticated, its access_token is "", its auth_type is oauth2, and email,
\* user_id, quota and used_quota are null.
ClearCredentialsNullsProfile ==
    [][last'.op = "clear_credentials"
        => ClearedApartFromEmail(acct') /\ acct'.email = NullStr]_vars

\* C15 as amended: after clear_credentials, whatever the Account was before, it
\* is not authenticated, its access_token is "", its auth_type is oauth2,
\* user_id, quota and used_quota are null and email is the empty string.
ClearCredentialsResetsProfile ==
    [][last'.op = "clear_credentials"
        => ClearedApartFromEmail(acct') /\ acct'.email = ""]_vars

\* clear_credentials was called on an authenticated Account of auth_type
\* direct with a profile
ClearedDirectAccountWithProfile ==
    /\ last.op = "clear_credentials"
    /\ last.before.is_authenticated
    /\ last.before.auth_type = "direct"
    /\ last.before.email = "a"
    /\ last.before.user_id = Some(7)
    /\ acct.email = ""

----------------------------------------------------------------------------
(* Claims about loading and clearing the credential file (checked under     *)
(* StoreSpec)                                                               *)

\* the item is a record with a usable email or a usable account_id
WellFormed(item) ==
    /\ item.json = "object"
    /\ \/ Truthy(DictGet(item.value, "email", ""))
       \/ Truthy(DictGet(item.value, "account_id", ""))

Loaded ==
    /\ last.op = "load_saved_credentials"
    /\ token_manager_enabled
    /\ file.kind = "list"

\* C16: after loading a list, the registry holds exactly one Account per
\* well-formed record: items that are no record, or have neither a usable
\* account_id nor a usable email, are skipped and every other item is loaded.
LoadKeepsEveryWellFormedRecord ==
    Loaded
        => Len(accounts)
             = Cardinality({i \in 1..Len(file.data) : WellFormed(file.data[i])})

\* C17: when the credential file is absent, empty, corrupt JSON or JSON that
\* is no list, the load raises nothing, returns False and leaves the registry
\* empty, with add_account still working on it.
LoadOfNoListLoadsNothing ==
    (/\ last.op = "load_saved_credentials"
     /\ file.kind \in {"absent", "empty", "corrupt", "nonlist"})
        => /\ last.raised = "none"
           /\ last.ret = FALSE
           /\ accounts = << >>
           /\ list_accounts(accounts) = << >>
           /\ add_account(accounts, NewAccount("a", "a")).raised = "none"

\* a corrupt file was loaded with token management on
LoadedCorruptFile ==
    /\ last.op = "load_saved_credentials"
    /\ token_manager_enabled
    /\ file.kind = "corrupt"

\* the id a record is loaded under: its email when usable, else its account_id
RecordId(item) ==
    IF Truthy(DictGet(item.value, "email", ""))
    THEN item.value["email"]
    ELSE DictGet(item.value, "account_id", "")

\* the record is older than token_staleness_days
Stale(item) ==
    /\ "saved_at" \in DOMAIN item.value
    /\ now - item.value["saved_at"] > token_staleness_days

\* the i-th item is the record the Account under its id was reconstructed from:
\* the first well-formed record of that id
Source(i) ==
    /\ WellFormed(file.data[i])
    /\ \A j \in 1..(i - 1) :
          WellFormed(file.data[j]) => RecordId(file.data[j]) # RecordId(file.data[i])

\* C18: every Account reconstructed by the load is authenticated exactly when
\* its record's access_token is non-empty, whatever the record's stored
\* is_authenticated and saved_at: a stale record is loaded like any other.
LoadedAuthenticatedIffTokenPresent ==
    Loaded
        => \A i \in 1..Len(file.data) :
              Source(i)
                  => /\ RecordId(file.data[i]) \in Keys(accounts)
                     /\ get_account(accounts, RecordId(file.data[i])).is_authenticated
                            <=> Truthy(DictGet(file.data[i].value, "access_token", ""))

\* a stale record with an empty token and a stored flag of TRUE was loaded, and
\* so was a stale record with a token and a stored flag of FALSE
LoadedStaleRecordsWithWrongFlags ==
    /\ Loaded
    /\ \E i \in 1..Len(file.data) :
          /\ Source(i) /\ Stale(file.data[i])
          /\ file.data[i].value["is_authenticated"]
          /\ ~get_account(accounts, RecordId(file.data[i])).is_authenticated
    /\ \E i \in 1..Len(file.data) :
          /\ Source(i) /\ Stale(file.data[i])
          /\ ~file.data[i].value["is_authenticated"]
          /\ get_account(accounts, RecordId(file.data[i])).is_authenticated

----------------------------------------------------------------------------
(* Claims about upload_to_suitable_account (checked under SelectSpec)       *)

\* C20: upload_to_suitable_account on a path that names no existing file raises
\* FileNotFoundError having called nothing but os.path.exists: the size is not
\* read, no account is selected, nothing is sent to the remote, and the
\* registry, its Accounts and the credential file stay as they were.
UploadOfMissingFileFailsFirst ==
    [][(last'.op = "upload_to_suitable_account" /\ ~last'.path_exists)
        => /\ last'.raised = "FileNotFoundError"
           /\ last'.calls = <<"os.path.exists">>
           /\ last'.selected = 0
           /\ accounts' = accounts
           /\ file' = file]_vars

\* the upload of a missing file failed on a registry where an account had room
\* for a file of positive size
UploadOfMissingFileFailedWithRoom ==
    /\ last.op = "upload_to_suitable_account"
    /\ ~last.path_exists
    /\ last.raised = "FileNotFoundError"
    /\ last.file_size > 0
    /\ \E i \in 1..Len(accounts) : Survives(i)

\* an upload of an existing file for which selection returned an Account
UploadSelected ==
    /\ last.op = "upload_to_suitable_account"
    /\ last.path_exists
    /\ select_account_for_upload(accounts, last.file_size, last.resps).raised = "none"

ScannedEveryAccount ==
    /\ last.op = "select_account_for_upload"
    /\ \/ last.raised = "none"
       \/ last.error = "no_suitable_account"

\* C25: after select_account_for_upload, the quota and used_quota of every
\* authenticated Account whose quota query was answered are the figures the
\* remote answered with.
QuotaQueryRefreshesAccount ==
    ScannedEveryAccount
        => \A i \in 1..Len(accounts) :
              (accounts[i].acct.is_authenticated /\ QuotaAnswered(i))
                  => /\ accounts[i].acct.quota = Some(last.resps[i].data["quota"])
                     /\ accounts[i].acct.used_quota = Some(last.resps[i].data["usedquota"])

\* free space by the figures the Account object holds
CachedFreeSpace(i) == accounts[i].acct.quota[1] - accounts[i].acct.used_quota[1]

\* C25 as amended: select_account_for_upload decides with the total and used
\* quota the remote answers with during the call, not with the figures the
\* Account holds, and leaves every Account's quota and used_quota as they were.
QuotaQueryLeavesAccountAsItWas ==
    [][last'.op = "select_account_for_upload"
        => /\ accounts' = accounts
           /\ (Returned => Survives(last.selected))'
           /\ (\A i \in 1..Len(accounts) : Survives(i) => last.raised # "PCloudException")']_vars

\* an Account was returned whose own figures are not those the remote answered
\* with, past an authenticated account that has room by its own figures and
\* none by the remote's
SelectedByRemoteFigures ==
    /\ Returned
    /\ accounts[last.selected].acct.quota # Some(last.resps[last.selected].data["quota"])
    /\ \E j \in 1..Len(accounts) :
          /\ accounts[j].acct.is_authenticated
          /\ QuotaAnswered(j)
          /\ CachedFreeSpace(j) >= last.file_size
          /\ FreeSpace(j) < last.file_size

----------------------------------------------------------------------------
(* Claims about the two credential-acquisition calls (checked under         *)
(* AccountSpec)                                                             *)

\* the remote answered the oauth2_token call with an error body, whatever the
\* HTTP status
RemoteReportsOAuthError(resp) ==
    /\ resp.transport = "ok"
    /\ resp.body = "dict"
    /\ "error" \in DOMAIN resp.data
    /\ "access_token" \notin DOMAIN resp.data

\* C26: when the remote answers the oauth2_token call with an error body, with
\* HTTP status 400 too, perform_oauth_exchange raises the exchange-failed error,
\* not the network error, and an Account that was not authenticated stays so.
OAuthErrorBodyIsExchangeFailure ==
    (last.op = "perform_oauth_exchange" /\ RemoteReportsOAuthError(last.resp))
        => /\ last.raised = "PCloudException"
           /\ last.error = "exchange_failed"
           /\ ~last.before.is_authenticated => ~acct.is_authenticated

\* the remote supplies a user id: the key is there and its value is not null
SuppliesUserId(data) == "userid" \in DOMAIN data /\ data["userid"] # NullInt

\* the remote supplies an email: the key is there and its value is neither
\* empty nor null
SuppliesEmail(data) == "email" \in DOMAIN data /\ data["email"] \notin {"", NullStr}

\* C27: after a successful perform_oauth_exchange the Account holds the
\* access_token of the response, auth_type oauth2, is_authenticated, and the
\* locationid of the response or, without one, the location_id asked for;
\* user_id and email are those the remote supplied, and what they were before
\* the call when the remote supplied none, an empty one or null.
OAuthSuccessSetsCredentialsKeepsProfile ==
    (last.op = "perform_oauth_exchange" /\ last.raised = "none")
        => /\ acct.access_token = last.resp.data["access_token"]
           /\ acct.auth_type = "oauth2"
           /\ acct.is_authenticated
           /\ acct.location_id = DictGet(last.resp.data, "locationid", last.location_id)
           /\ acct.user_id = IF SuppliesUserId(last.resp.data)
                             THEN Some(last.resp.data["userid"])
                             ELSE last.before.user_id
           /\ acct.email = IF SuppliesEmail(last.resp.data)
                           THEN last.resp.data["email"]
                           ELSE last.before.email

\* the remote answered the login with result code 0 and a token
RemoteSuppliesToken(resp) ==
    /\ resp.transport = "ok" /\ resp.status = 200 /\ resp.body = "dict"
    /\ {"result", "auth"} \subseteq DOMAIN resp.data
    /\ resp.data["result"] = 0
    /\ resp.data["auth"] # ""

\* the credentials of the Account are those of the login answered with resp
CredentialsSet(a, location_id, resp) ==
    /\ a.access_token = resp.data["auth"]
    /\ a.location_id = location_id
    /\ a.auth_type = "direct"
    /\ a.is_authenticated

\* the profile of the Account is that of the response
ProfileSet(a, email, resp) ==
    /\ {"userid", "quota", "usedquota"} \subseteq DOMAIN resp.data
    /\ a.email = DictGet(resp.data, "email", email)
    /\ a.user_id = Some(resp.data["userid"])
    /\ a.quota = Some(resp.data["quota"])
    /\ a.used_quota = Some(resp.data["usedquota"])

\* C28: when the remote answers a direct login with result code 0 and a token,
\* the call returns and the Account holds the token, the location_id asked for,
\* auth_type direct, is_authenticated, and the email (the login email when the
\* response has none), user_id, quota and used_quota of the response: the
\* Account is never left with the credentials set and the profile not.
DirectLoginSuccessSetsAllAtOnce ==
    (last.op = "perform_direct_login" /\ RemoteSuppliesToken(last.resp))
        => /\ last.raised = "none"
           /\ CredentialsSet(acct, last.location_id, last.resp)
           /\ ProfileSet(acct, last.email, last.resp)

----------------------------------------------------------------------------
(* Claims about logout (checked under SessionSpec: token management on, no  *)
(* file I/O failure)                                                        *)

\* the file holds one record per registered account, in order, with the
\* account's id, token and is_authenticated
FileHolds(f, accs) ==
    /\ f.kind = "list"
    /\ Len(f.data) = Len(accs)
    /\ \A i \in 1..Len(accs) :
          /\ f.data[i].json = "object"
          /\ f.data[i].value["account_id"] = accs[i].acct.account_id
          /\ f.data[i].value["access_token"] = accs[i].acct.access_token
          /\ f.data[i].value["is_authenticated"] = accs[i].acct.is_authenticated

----------------------------------------------------------------------------
(* Claims about find_file_in_accounts (checked under FindSpec)              *)

Searched == last.op = "find_file_in_accounts"

\* the remote answered the i-th account's listfolder call with a listing
ListingSucceeded(i) ==
    /\ last.resps[i].transport = "ok"
    /\ last.resps[i].status = 200
    /\ last.resps[i].body = "dict"
    /\ "result" \in DOMAIN last.resps[i].data
    /\ last.resps[i].data["result"] = 0

\* the entries of the listing the remote answered with
Entries(i) ==
    IF "metadata" \in DOMAIN last.resps[i].data
    THEN DictGet(last.resps[i].data["metadata"], "contents", << >>)
    ELSE DictGet(last.resps[i].data, "contents", << >>)

\* the k-th entry of the i-th account's listing is a match: the account is
\* authenticated, its listing succeeded, the entry is flagged as a file and
\* its name is the filename searched for
Match(i, k) ==
    /\ accounts[i].acct.is_authenticated
    /\ ListingSucceeded(i)
    /\ k \in 1..Len(Entries(i))
    /\ "isfile" \in DOMAIN Entries(i)[k]
    /\ Entries(i)[k]["isfile"]
    /\ "name" \in DOMAIN Entries(i)[k]
    /\ Entries(i)[k]["name"] = last.filename

\* the matches, each the pair of its account's index and its place in the listing
Matches ==
    UNION {{<<i, k>> : k \in {n \in 1..Len(Entries(i)) : Match(i, n)}} :
              i \in 1..Len(accounts)}

\* r is the k-th entry of the i-th account's listing with that account's id and
\* email added
Annotates(r, i, k) ==
    /\ DOMAIN r = DOMAIN Entries(i)[k] \cup {"account_id_found_in", "account_email_found_in"}
    /\ \A key \in DOMAIN Entries(i)[k] : r[key] = Entries(i)[k][key]
    /\ r["account_id_found_in"] = accounts[i].acct.account_id
    /\ r["account_email_found_in"] = accounts[i].acct.email

\* C22: find_file_in_accounts returns exactly the entries that, in the listing
\* of an authenticated account whose listfolder call succeeded, are flagged as a
\* file and have the name filename, each with the id and the email of the
\* account it came from; and no listfolder call is made for an account that is
\* not authenticated.
FindReturnsExactlyTheMatches ==
    Searched
        => /\ \A j \in 1..Len(last.ret) :
                 \E m \in Matches : Annotates(last.ret[j], m[1], m[2])
           /\ \A m \in Matches :
                 \E j \in 1..Len(last.ret) : Annotates(last.ret[j], m[1], m[2])
           /\ Len(last.ret) = Cardinality(Matches)
           /\ \A q \in 1..Len(last.queried) :
                 accounts[last.queried[q].index].acct.is_authenticated

\* a search for f returned the one match of the second account, whose listing
\* also holds a file named F, and nothing of the first account, which is not
\* authenticated and would have listed a file named f
FoundOnlyInAuthenticatedAccount ==
    /\ Searched
    /\ last.filename = "f"
    /\ Len(accounts) >= 2
    /\ ~accounts[1].acct.is_authenticated
    /\ ListingSucceeded(1)
    /\ Entries(1) = <<FileEntry("f", 1)>>
    /\ accounts[2].acct.is_authenticated
    /\ Entries(2) = <<FileEntry("F", 3), FileEntry("f", 1)>>
    /\ Len(last.ret) = 1
    /\ last.ret[1]["account_id_found_in"] = "b"
    /\ last.ret[1]["account_email_found_in"] = ""

\* the i-th account's listing raised: the account is authenticated and the
\* remote did not answer its listfolder call with a listing
ListingRaised(i) ==
    /\ accounts[i].acct.is_authenticated
    /\ ~ListingSucceeded(i)

\* C23: when the listing of an account raises, find_file_in_accounts does not
\* raise: every authenticated account after it is still queried and every
\* match of the accounts whose listing succeeded is returned.
FindSurvivesListingErrors ==
    (Searched /\ \E i \in 1..Len(accounts) : ListingRaised(i))
        => /\ last.raised = "none"
           /\ \A i \in 1..Len(accounts) :
                 accounts[i].acct.is_authenticated
                     => \E q \in 1..Len(last.queried) : last.queried[q].index = i
           /\ \A m \in Matches :
                 \E j \in 1..Len(last.ret) : Annotates(last.ret[j], m[1], m[2])

\* the first account's listing failed on the network, the second account's
\* answer was no dict, and the match of the third account was returned
FoundAfterTwoFailedListings ==
    /\ Searched
    /\ Len(accounts) = 3
    /\ ListingRaised(1)
    /\ last.resps[1] = TransportFailure
    /\ ListingRaised(2)
    /\ last.resps[2] = NonDict
    /\ Len(last.ret) = 1
    /\ Matches = {<<3, 1>>}
    /\ Annotates(last.ret[1], 3, 1)

\* the account and the entry a returned match came from
Origin(r) ==
    CHOOSE m \in Matches : Annotates(r, m[1], m[2])

\* C24: the list find_file_in_accounts returns is in account order, the matches
\* of one account in the order of its listing; and the call returns the empty
\* list, raising nothing, when there is no match, when no account is
\* authenticated and when the registry is empty.
FindReturnsInAccountOrder ==
    Searched
        => /\ last.raised = "none"
           /\ \A j, k \in 1..Len(last.ret) :
                 j < k => \/ Origin(last.ret[j])[1] < Origin(last.ret[k])[1]
                          \/ /\ Origin(last.ret[j])[1] = Origin(last.ret[k])[1]
                             /\ Origin(last.ret[j])[2] < Origin(last.ret[k])[2]
           /\ (\/ Matches = {}
               \/ \A i \in 1..Len(accounts) : ~accounts[i].acct.is_authenticated
               \/ accounts = << >>)
                 => last.ret = << >>

\* two matches of the first account were returned in listing order, before the
\* match of the third account
FoundTwoThenOne ==
    /\ Searched
    /\ Len(last.ret) = 3
    /\ Matches = {<<1, 1>>, <<1, 3>>, <<3, 1>>}
    /\ Annotates(last.ret[1], 1, 1)
    /\ last.ret[1]["fileid"] = 2
    /\ Annotates(last.ret[2], 1, 3)
    /\ Annotates(last.ret[3], 3, 1)

----------------------------------------------------------------------------
(* Claims about get_auth_url (checked under AuthUrlSpec)                    *)

\* the value the query string carries for the key, when it carries one pair
\* for it
QueryValues(query, key) == {query[i].value : i \in {j \in 1..Len(query) : query[j].key = key}}

\* urllib.parse.unquote_plus on the quoted strings of the model
unquote_plus(v) ==
    IF v = "http%3A%2F%2Fh%2Fcb" THEN "http://h/cb"
    ELSE IF v = "app%3A%2F%2Fcb" THEN "app://cb"
    ELSE v

\* C30: get_auth_url raises the configuration error whenever the registry has
\* no app_key; otherwise it returns the authorize URL with client_id = app_key,
\* response_type = code and a redirect_uri parameter exactly when a non-empty
\* redirect_uri was given, which decodes to the one given; and it changes
\* nothing of the orchestrator.
AuthUrlCarriesClientKey ==
    [][last'.op = "get_auth_url"
        => /\ IF app_key = ""
              THEN /\ last'.raised = "PCloudException"
                   /\ last'.error = "not_configured"
              ELSE /\ last'.raised = "none"
                   /\ last'.host = "https://my.pcloud.com/oauth2/authorize"
                   /\ QueryValues(last'.query, "client_id") = {app_key}
                   /\ QueryValues(last'.query, "response_type") = {"code"}
                   /\ IF last'.redirect_uri # ""
                      THEN {unquote_plus(v) : v \in QueryValues(last'.query, "redirect_uri")}
                               = {last'.redirect_uri}
                      ELSE QueryValues(last'.query, "redirect_uri") = {}
                   /\ Len(last'.query) = IF last'.redirect_uri # "" THEN 3 ELSE 2
           /\ UNCHANGED <<accounts, app_key, app_secret, token_manager_enabled, file, acct>>]_vars

\* a URL without redirect_uri was returned on a registry of two accounts
AuthUrlWithoutRedirectUri ==
    /\ last.op = "get_auth_url"
    /\ last.raised = "none"
    /\ last.redirect_uri = ""
    /\ Len(last.query) = 2
    /\ Len(accounts) = 2

----------------------------------------------------------------------------
(* The three handle getters, each called once with an id on a registry of   *)
(* up to MaxAccounts accounts; the ids asked for include one no registry of *)
(* that size holds                                                          *)

HandleIds == {IdPool[i] : i \in 1..(MaxAccounts + 1)}

\* what the caller gets: the handle, or nothing when the getter raised
HandleReturned(raised, handle) == IF raised = "none" THEN Some(handle) ELSE None

GetFileOperations ==
    /\ last.op = "init"
    /\ \E account_id \in HandleIds :
          \E r \in {get_file_operations(accounts, account_id)} :
              last' = [op |-> "get_file_operations", account_id |-> account_id,
                       raised |-> r.raised, handle |-> HandleReturned(r.raised, r.file_ops)]
    /\ UNCHANGED <<accounts, app_key, app_secret, token_manager_enabled, file, now, acct>>

GetFolderOperations ==
    /\ last.op = "init"
    /\ \E account_id \in HandleIds :
          \E r \in {get_folder_operations(accounts, account_id)} :
              last' = [op |-> "get_folder_operations", account_id |-> account_id,
                       raised |-> r.raised, handle |-> HandleReturned(r.raised, r.folder_ops)]
    /\ UNCHANGED <<accounts, app_key, app_secret, token_manager_enabled, file, now, acct>>

GetUserOperations ==
    /\ last.op = "init"
    /\ \E account_id \in HandleIds :
          \E r \in {get_user_operations(accounts, account_id)} :
              last' = [op |-> "get_user_operations", account_id |-> account_id,
                       raised |-> r.raised, handle |-> HandleReturned(r.raised, r.user)]
    /\ UNCHANGED <<accounts, app_key, app_secret, token_manager_enabled, file, now, acct>>

HandleNext ==
    \/ GetFileOperations
    \/ GetFolderOperations
    \/ GetUserOperations

HandleSpec == SelectInit /\ [][HandleNext]_vars

----------------------------------------------------------------------------
(* Claims about the handle getters (checked under HandleSpec)               *)

HandleOps == {"get_file_operations", "get_folder_operations", "get_user_operations"}

\* the id asked for is a key of the registry and its Account is authenticated
Usable(account_id) ==
    /\ account_id \in Keys(accounts)
    /\ get_account(accounts, account_id).is_authenticated

\* C31: get_file_operations, get_folder_operations and get_user_operations
\* return a handle only for an id that is in the registry with is_authenticated
\* true, and the handle holds exactly that Account (a User handle with nothing
\* fetched); for an unknown or unauthenticated id they raise PCloudException,
\* return nothing, and leave the registry and the credential file as they were
HandlesOnlyForAuthenticatedAccounts ==
    [][last'.op \in HandleOps =>
          /\ accounts' = accounts
          /\ file' = file
          /\ IF Usable(last'.account_id)
             THEN /\ last'.raised = "none"
                  /\ last'.handle # None
                  /\ last'.handle[1].account = get_account(accounts, last'.account_id)
                  /\ last'.handle[1].account.account_id = last'.account_id
                  /\ (last'.op = "get_user_operations" => last'.handle[1].user_info = None)
             ELSE /\ last'.raised = "PCloudException"
                  /\ last'.handle = None]_vars

\* the second of three accounts, the first of them unauthenticated, gave its
\* User handle
HandleOfSecondAccount ==
    /\ last.op = "get_user_operations"
    /\ last.account_id = "b"
    /\ Len(accounts) = 3
    /\ ~accounts[1].acct.is_authenticated
    /\ last.raised = "none"
    /\ last.handle # None
    /\ last.handle[1].account.account_id = "b"

----------------------------------------------------------------------------
(* One User handle of an authenticated account: getters and refreshes on    *)
(* it, each with the answer the remote gives if it is asked.  last keeps    *)
(* the handle, the userinfo calls the operation issued and the calls issued *)
(* on the handle since it was made                                          *)

UserInit ==
    /\ accounts = << >>
    /\ app_key = ""
    /\ app_secret = ""
    /\ token_manager_enabled = FALSE
    /\ file = AbsentFile
    /\ now = 0
    /\ acct = RegistryOf(<<TRUE>>)[1].acct
    /\ last = [op |-> "User", user |-> User(acct), raised |-> "none", issued |-> 0,
               total |-> 0]

\* the outcome r of an operation on the handle becomes the state
UserStep(op, resp, r) ==
    /\ now < MaxTime
    /\ now' = now + 1
    /\ last' = [op |-> op, resp |-> resp, user |-> r.self, raised |-> r.raised,
                issued |-> r.calls, total |-> last.total + r.calls]
    /\ UNCHANGED <<accounts, app_key, app_secret, token_manager_enabled, file, acct>>

GetUserInfo ==
    \E resp \in UserInfoResponses : UserStep("get_user_info", resp, get_user_info(last.user, resp))

GetQuota ==
    \E resp \in UserInfoResponses : UserStep("get_quota", resp, get_quota(last.user, resp))

GetUsedQuota ==
    \E resp \in UserInfoResponses :
        UserStep("get_used_quota", resp, get_used_quota(last.user, resp))

RefreshUserInfo ==
    \E resp \in UserInfoResponses :
        UserStep("refresh_user_info", resp, refresh_user_info(last.user, resp))

UserNext ==
    \/ GetUserInfo
    \/ GetQuota
    \/ GetUsedQuota
    \/ RefreshUserInfo

UserSpec == UserInit /\ [][UserNext]_vars

----------------------------------------------------------------------------
(* Claims about the User handle's cache (checked under UserSpec)            *)

UserGetters == {"get_user_info", "get_quota", "get_used_quota"}

\* the remote's answer is one the fetch takes for user info
FetchSucceeds(resp) == request_get(resp).raised = "none"

\* the cache a fetch answered with resp leaves
CacheAfterFetch(resp) == IF FetchSucceeds(resp) THEN Some(request_get(resp).value) ELSE None

----------------------------------------------------------------------------
(* Claims about calls of the orchestrator that stop early (checked under    *)
(* Spec)                                                                    *)

\* the application's key or secret is not configured
Unconfigured == ~Truthy(app_key) \/ ~Truthy(app_secret)

\* C33: authenticate, when the registry-wide app key or app secret is not
\* configured, raises PCloudException for that reason whatever the account id
\* and whatever the remote would answer, returns no Account, and leaves the
\* registry (keys and every Account) and the credential file as they were
AuthenticateUnconfiguredFailsFirst ==
    [][last'.op = "authenticate" /\ Unconfigured =>
          /\ last'.raised = "PCloudException"
          /\ last'.error = "not_configured"
          /\ last'.ret = None
          /\ ~last'.saved
          /\ accounts' = accounts
          /\ file' = file]_vars

\* an authenticate for a registered account, with a key but no secret, that the
\* remote would have answered with a token
AuthenticateWithoutSecretFailed ==
    /\ last.op = "authenticate"
    /\ app_key = "k"
    /\ app_secret = ""
    /\ last.account_id \in Keys(accounts)
    /\ last.resp = Json(200, [access_token |-> "t2"])
    /\ last.error = "not_configured"

\* C34: login without force_login for an email that is a key of the registry
\* with is_authenticated true returns that Account whatever the remote would
\* answer, and leaves every Account of the registry and the credential file as
\* they were (nothing is saved)
LoginOfAuthenticatedAccountIsNoOp ==
    [][/\ last'.op = "login"
       /\ ~last'.force_login
       /\ last'.account_id \in Keys(accounts)
       /\ get_account(accounts, last'.account_id).is_authenticated
       => /\ last'.raised = "none"
          /\ last'.ret = Some(get_account(accounts, last'.account_id))
          /\ ~last'.saved
          /\ accounts' = accounts
          /\ file' = file]_vars

\* a second login of "a", not forced, that the remote would have answered with
\* another token: the Account keeps the token of the first
LoggedInTwiceKeepsFirstToken ==
    /\ last.op = "login"
    /\ ~last.force_login
    /\ last.account_id = "a"
    /\ last.resp = Json(200, [result |-> 0, auth |-> "t2"])
    /\ last.raised = "none"
    /\ last.ret # None
    /\ last.ret[1].access_token = "t1"
    /\ now = 2

\* C35: a login that fails for an email that is not a key of the registry
\* leaves the registry (its key set, and with it every Account) and the
\* credential file as they were and returns no Account: the Account made for
\* the attempt is neither registered nor saved
FailedLoginOfNewEmailRegistersNothing ==
    [][/\ last'.op = "login"
       /\ last'.account_id \notin Keys(accounts)
       /\ last'.raised # "none"
       => /\ Keys(accounts') = Keys(accounts)
          /\ accounts' = accounts
          /\ file' = file
          /\ ~last'.saved
          /\ last'.ret = None]_vars

\* "a" is logged in and saved; the login of "b" that followed was refused
FailedLoginNextToRegisteredAccount ==
    /\ last.op = "login"
    /\ last.account_id = "b"
    /\ last.resp = Json(200, [result |-> 2009, error |-> "e"])
    /\ last.raised = "PCloudException"
    /\ Keys(accounts) = {"a"}
    /\ accounts[1].acct.is_authenticated
    /\ file.kind = "list"
    /\ Len(file.data) = 1

----------------------------------------------------------------------------
(* The registry under every call that writes it: the orchestrator's login,  *)
(* authenticate, logout and clear_saved_credentials, the load of a new      *)
(* orchestrator on the same token_file, and add_account / remove_account of *)
(* the AccountManager called directly.  The token_file at the start is      *)
(* absent, corrupt or holds one record someone else wrote, and writing it   *)
(* does not fail.  last keeps the name of the call only                     *)

RegistryFiles == {AbsentFile, CorruptFile} \cup {ListFile(<<item>>) : item \in StoredItems}

RegistryInit ==
    /\ accounts = << >>
    /\ app_key = "k"
    /\ app_secret = "s"
    /\ token_manager_enabled = TRUE
    /\ file \in RegistryFiles
    /\ now = 0
    /\ acct = NewAccount("a", "")
    /\ last = [op |-> "init"]

RegistryStep(op, accs, f) ==
    /\ now < MaxTime
    /\ accounts' = accs
    /\ file' = f
    /\ last' = [op |-> op]
    /\ now' = now + 1
    /\ UNCHANGED <<app_key, app_secret, token_manager_enabled, acct>>

RegistryLogin ==
    \E email \in Ids, force_login \in BOOLEAN, resp \in SdkLoginResponses :
        \E r \in {login(accounts, file, token_manager_enabled, email, 2, force_login, resp, "ok")} :
            RegistryStep("login", r.accounts, r.file)

RegistryAuthenticate ==
    \E account_id \in Ids, resp \in SdkOAuthResponses :
        \E r \in {authenticate(accounts, file, token_manager_enabled, app_key, app_secret,
                               "code", 2, account_id, resp, "ok")} :
            RegistryStep("authenticate", r.accounts, r.file)

RegistryLogout ==
    \E account_id \in Ids :
        \E r \in {logout(accounts, file, token_manager_enabled, account_id, "ok")} :
            RegistryStep("logout", r.accounts, r.file)

RegistryLoad ==
    RegistryStep("load", sdk_init(token_manager_enabled, file, app_key, app_secret), file)

RegistryClear ==
    \E io \in RemoveOutcomes :
        \E r \in {clear_saved_credentials(token_manager_enabled, accounts, file, io)} :
            RegistryStep("clear_saved_credentials", r.accounts, r.file)

RegistryAddAccount ==
    \E account \in ManagerAccounts :
        RegistryStep("add_account", add_account(accounts, account).accounts, file)

RegistryRemoveAccount ==
    \E account_id \in ManagerIds :
        RegistryStep("remove_account", remove_account(accounts, account_id).accounts, file)

RegistryNext ==
    \/ RegistryLogin
    \/ RegistryAuthenticate
    \/ RegistryLogout
    \/ RegistryLoad
    \/ RegistryClear
    \/ RegistryAddAccount
    \/ RegistryRemoveAccount

RegistrySpec == RegistryInit /\ [][RegistryNext]_vars

----------------------------------------------------------------------------
(* Claims about the registry as a mapping (checked under RegistrySpec)      *)

\* C36: in every state reached through login, authenticate, logout, load,
\* clear and the registry's add_account / remove_account, every key of the
\* registry maps to an Account whose account_id is that key, and no key occurs
\* twice
KeysAreAccountIds ==
    /\ \A i \in 1..Len(accounts) : accounts[i].acct.account_id = accounts[i].key
    /\ \A i, j \in 1..Len(accounts) : accounts[i].key = accounts[j].key => i = j

\* a new orchestrator loaded a record whose account_id is "b" and whose email
\* is "a": the record is registered under "a"
LoadedRecordUnderItsEmail ==
    /\ last.op = "load"
    /\ file.kind = "list"
    /\ Len(file.data) = 1
    /\ file.data[1].json = "object"
    /\ DictGet(file.data[1].value, "account_id", "") = "b"
    /\ Keys(accounts) = {"a"}
    /\ get_account(accounts, "a").account_id = "a"

----------------------------------------------------------------------------
(* The two calls that go through every account of the registry, each called *)
(* once on a registry of up to MaxAccounts accounts                         *)

IterationNext ==
    \/ SelectAccountForUpload
    \/ FindFileInAccounts

IterationSpec == SelectInit /\ [][IterationNext]_vars

----------------------------------------------------------------------------
(* Claims about select_account_for_upload and find_file_in_accounts as      *)
(* readers of the registry (checked under IterationSpec)                    *)

IterationOps == {"select_account_for_upload", "find_file_in_accounts"}

\* the credential of an Account
Credential(account) ==
    [access_token |-> account.access_token, is_authenticated |-> account.is_authenticated,
     auth_type |-> account.auth_type, location_id |-> account.location_id]

\* C37: select_account_for_upload and find_file_in_accounts, whether they
\* return or raise, leave the registry's keys (and their order), every
\* account's access_token, is_authenticated, auth_type and location_id, and the
\* credential file as they were
IterationLeavesCredentials ==
    [][last'.op \in IterationOps =>
          /\ Keys(accounts') = Keys(accounts)
          /\ Len(accounts') = Len(accounts)
          /\ \A i \in 1..Len(accounts) :
                /\ accounts'[i].key = accounts[i].key
                /\ Credential(accounts'[i].acct) = Credential(accounts[i].acct)
          /\ file' = file]_vars

\* a selection that raised for want of a suitable account, after the quota
\* query of the first of two authenticated accounts failed: both still hold
\* their tokens
SelectionFailedAccountsKeepTokens ==
    /\ last.op = "select_account_for_upload"
    /\ last.raised = "PCloudException"
    /\ Len(accounts) = 2
    /\ last.resps[1] = TransportFailure
    /\ \A i \in 1..2 : accounts[i].acct.is_authenticated /\ accounts[i].acct.access_token = "t1"

----------------------------------------------------------------------------
(* Claims about the quota queries of one selection (checked under           *)
(* SelectSpec)                                                              *)

\* the indexes of the authenticated accounts, in the order of the list
AuthenticatedIndexes ==
    SelectSeq([i \in 1..Len(accounts) |-> i], LAMBDA i : accounts[i].acct.is_authenticated)

\* C38: one select_account_for_upload issues its userinfo calls one after
\* another in the order of the registry: each is for an authenticated account,
\* no account is asked twice, an account is asked only after the accounts before
\* it, and none is for an unauthenticated account; when the loop runs to its end
\* (the call returns or raises PCloudException) every authenticated account was
\* asked exactly once
SelectQueriesOncePerAccountInOrder ==
    [][last'.op = "select_account_for_upload" =>
          /\ \A k \in 1..Len(last'.queried) :
                /\ last'.queried[k] \in 1..Len(accounts)
                /\ accounts[last'.queried[k]].acct.is_authenticated
          /\ \A j, k \in 1..Len(last'.queried) : j < k => last'.queried[j] < last'.queried[k]
          /\ last'.raised \in {"none", "PCloudException"} => last'.queried = AuthenticatedIndexes]_vars

\* of three accounts the second is unauthenticated; the first was asked and
\* refused, the third was asked and selected
AskedFirstAndThird ==
    /\ last.op = "select_account_for_upload"
    /\ Len(accounts) = 3
    /\ ~accounts[2].acct.is_authenticated
    /\ last.resps[1] = Json(200, [result |-> 2000, error |-> "e"])
    /\ last.queried = <<1, 3>>
    /\ last.selected = 3

----------------------------------------------------------------------------
(* Claims about records of one identity in the credential file (checked     *)
(* under StoreSpec)                                                         *)

\* the identity a record resolves to: its email, or its account_id when it has
\* no email; "" for a record with neither and for an item that is no record
Identity(item) ==
    IF item.json # "object" THEN ""
    ELSE IF Truthy(DictGet(item.value, "email", "")) THEN item.value["email"]
    ELSE IF Truthy(DictGet(item.value, "account_id", "")) THEN item.value["account_id"]
    ELSE ""

\* the positions in the file of the first record of each identity, in file order
FirstRecords ==
    SelectSeq([i \in 1..Len(file.data) |-> i],
              LAMBDA i : /\ Identity(file.data[i]) # ""
                         /\ \A j \in 1..(i - 1) : Identity(file.data[j]) # Identity(file.data[i]))

\* C39: load, on a file whose list holds several records of one identity (the
\* same email, or the same account_id with no email), raises nothing and
\* returns true; the registry holds one Account per identity, in the order the
\* identities first occur, each built from the first record of its identity,
\* so the later records of an identity are skipped and every record of another
\* identity that follows them is loaded
LoadRegistersFirstOfEachIdentity ==
    [][/\ last'.op = "load_saved_credentials"
       /\ token_manager_enabled
       /\ file.kind = "list"
       => /\ last'.raised = "none"
          /\ last'.ret
          /\ Len(accounts') = Len(FirstRecords)
          /\ \A k \in 1..Len(FirstRecords) :
                /\ accounts'[k].key = Identity(file.data[FirstRecords[k]])
                /\ accounts'[k].acct.account_id = accounts'[k].key
                /\ accounts'[k].acct.access_token =
                       DictGet(file.data[FirstRecords[k]].value, "access_token", "")]_vars

\* three records, the first two with the email "a" and the tokens "t1" and "",
\* the third with the email "b": "a" is loaded with "t1", and "b" is loaded
LoadedFirstOfTwoThenAnother ==
    /\ last.op = "load_saved_credentials"
    /\ file.kind = "list"
    /\ Len(file.data) = 3
    /\ Identity(file.data[1]) = "a"
    /\ Identity(file.data[2]) = "a"
    /\ Identity(file.data[3]) = "b"
    /\ Len(accounts) = 2
    /\ accounts[1].key = "a"
    /\ accounts[1].acct.access_token = "t1"
    /\ accounts[2].key = "b"

====
